---- MODULE Spec2Model ----
(***************************************************************************)
(* A model of the djeno template engine (src/lib/djeno.ts, the current     *)
(* revision of the library that starts at line 489 of the file): lexer,    *)
(* parser, expression evaluator, filters, renderer and template store.     *)
(*                                                                         *)
(* JavaScript strings are modelled as sequences of one-character strings,  *)
(* so that the regular expressions and the character replacements of the   *)
(* source are computed character by character.  JavaScript values are      *)
(* records tagged by the field k.  Numbers are integers.                   *)
(***************************************************************************)
EXTENDS Integers, Sequences, FiniteSets, TLC

VARIABLES
    pc,       \* position of the operation under check: "start", "run", "done", ...
    input,    \* the arguments the operation was called with
    result,   \* what the operation returned (or raised)
    files,    \* the template directory: path -> source text, or Missing
    loader,   \* the TemplateLoader: cache, and the reads/parses it performed
    pstate    \* the parser's loop state: token index, frame stack, output

vars == <<pc, input, result, files, loader, pstate>>

(***************************************************************************)
(* Strings                                                                 *)
(***************************************************************************)

\* A JavaScript string as the sequence of its characters.
Chars(s) == [i \in 1..Len(s) |-> SubSeq(s, i, i)]

LowerLetters == "abcdefghijklmnopqrstuvwxyz"
UpperLetters == "ABCDEFGHIJKLMNOPQRSTUVWXYZ"
DigitChars == "0123456789"

Lower == {SubSeq(LowerLetters, i, i) : i \in 1..Len(LowerLetters)}
Upper == {SubSeq(UpperLetters, i, i) : i \in 1..Len(UpperLetters)}
Digits == {SubSeq(DigitChars, i, i) : i \in 1..Len(DigitChars)}

\* \s of the regular expressions, and what String.prototype.trim removes.
WS == {" ", "\t", "\n", "\r"}

\* \w
WordChars == Lower \cup Upper \cup Digits \cup {"_"}

\* [A-Za-z_$] and [A-Za-z0-9_$]
IdStart == Lower \cup Upper \cup {"_", "$"}
IdChar == IdStart \cup Digits

Min(S) == CHOOSE x \in S : \A y \in S : x <= y
Max(S) == CHOOSE x \in S : \A y \in S : x >= y

\* The concatenation of a sequence of sequences.
RECURSIVE Flatten(_)
Flatten(ss) ==
    IF Len(ss) = 0 THEN <<>>
    ELSE IF Len(ss) = 1 THEN ss[1]
    ELSE LET h == Len(ss) \div 2
         IN  Flatten(SubSeq(ss, 1, h)) \o Flatten(SubSeq(ss, h + 1, Len(ss)))

\* String.prototype.trim
Trim(s) ==
    LET keep == {i \in 1..Len(s) : s[i] \notin WS}
    IN  IF keep = {} THEN <<>> ELSE SubSeq(s, Min(keep), Max(keep))

\* The first position at or after i that holds no whitespace (Len(s) + 1: none).
SkipWS(s, i) ==
    LET stop == {j \in i..Len(s) : s[j] \notin WS}
    IN  IF stop = {} THEN (IF i > Len(s) THEN i ELSE Len(s) + 1) ELSE Min(stop)

\* s.slice(i) with a 0-based i
SliceFrom(s, i) == SubSeq(s, i + 1, Len(s))

\* s.startsWith(p) at the 1-based position i
StartsWithAt(s, i, p) ==
    /\ i + Len(p) - 1 <= Len(s)
    /\ \A j \in 1..Len(p) : s[i + j - 1] = p[j]

\* The 1-based position of the first occurrence of p in s at or after i, 0 if none.
IndexOfFrom(s, p, i) ==
    LET at == {j \in i..Len(s) : StartsWithAt(s, j, p)}
    IN  IF at = {} THEN 0 ELSE Min(at)

\* s.replace(/c/g, r) for a single character c
ReplaceChar(s, c, r) ==
    Flatten([i \in 1..Len(s) |-> IF s[i] = c THEN r ELSE <<s[i]>>])

ToLowerChar(c) ==
    IF c \in Upper
    THEN LET i == CHOOSE j \in 1..26 : SubSeq(UpperLetters, j, j) = c
         IN  SubSeq(LowerLetters, i, i)
    ELSE c

ToUpperChar(c) ==
    IF c \in Lower
    THEN LET i == CHOOSE j \in 1..26 : SubSeq(LowerLetters, j, j) = c
         IN  SubSeq(UpperLetters, i, i)
    ELSE c

toLowerCase(s) == [i \in 1..Len(s) |-> ToLowerChar(s[i])]
toUpperCase(s) == [i \in 1..Len(s) |-> ToUpperChar(s[i])]

\* s.replace(/p/gi, r): every occurrence of p, compared without case, left to right.
RECURSIVE ReplaceAllCI(_, _, _)
ReplaceAllCI(s, p, r) ==
    LET at == IndexOfFrom(toLowerCase(s), toLowerCase(p), 1) IN
    IF at = 0 THEN s
    ELSE SubSeq(s, 1, at - 1) \o r
           \o ReplaceAllCI(SubSeq(s, at + Len(p), Len(s)), p, r)

\* parts.join(sep)
JoinWith(parts, sep) ==
    Flatten([i \in 1..Len(parts) |-> IF i = 1 THEN parts[i] ELSE sep \o parts[i]])

\* The decimal digits of a natural number, and of an integer.
RECURSIVE NatStr(_)
NatStr(n) ==
    IF n < 10 THEN <<SubSeq(DigitChars, n + 1, n + 1)>>
    ELSE NatStr(n \div 10) \o <<SubSeq(DigitChars, (n % 10) + 1, (n % 10) + 1)>>

IntStr(n) == IF n < 0 THEN <<"-">> \o NatStr(-n) ELSE NatStr(n)

DigitVal(c) == CHOOSE d \in 0..9 : SubSeq(DigitChars, d + 1, d + 1) = c

RECURSIVE NatVal(_)
NatVal(s) ==
    IF Len(s) = 0 THEN 0
    ELSE 10 * NatVal(SubSeq(s, 1, Len(s) - 1)) + DigitVal(s[Len(s)])

AllDigits(s) == Len(s) > 0 /\ \A i \in 1..Len(s) : s[i] \in Digits

\* The order of the characters by UTF-16 code unit, as far as the model's
\* alphabet goes: control < space < punctuation < digits < upper < lower.
CodeOrder ==
    Chars("\t\n\r !\"#$%&'()*+,-./0123456789:;<=>?@ABCDEFGHIJKLMNOPQRSTUVWXYZ[\\]^_abcdefghijklmnopqrstuvwxyz{|}~")

CharCode(c) ==
    IF \E i \in 1..Len(CodeOrder) : CodeOrder[i] = c
    THEN CHOOSE i \in 1..Len(CodeOrder) : CodeOrder[i] = c
    ELSE Len(CodeOrder) + 1

\* L < R on JavaScript strings
StrLess(a, b) ==
    LET n == IF Len(a) < Len(b) THEN Len(a) ELSE Len(b)
        diff == {i \in 1..n : a[i] # b[i]}
    IN  IF diff = {} THEN Len(a) < Len(b)
        ELSE CharCode(a[Min(diff)]) < CharCode(b[Min(diff)])

(***************************************************************************)
(* Values                                                                  *)
(***************************************************************************)

Undef == [k |-> "undef"]
Null == [k |-> "null"]
Bool(b) == [k |-> "bool", b |-> b]
Num(n) == [k |-> "num", n |-> n]
Str(s) == [k |-> "str", s |-> s]
\* An array: its elements in order.
Arr(items) == [k |-> "arr", items |-> items]
\* A plain object: its own properties, <<key, value>> records in the order
\* they were inserted.
Obj(entries) == [k |-> "obj", e |-> entries]
Entry(key, val) == [key |-> key, val |-> val]
\* A callable: its source text, and what calling it does.
Fn(src, throws, ret) == [k |-> "fn", src |-> src, throws |-> throws, ret |-> ret]
\* An object whose conversion to a string raises (no usable toString).
NoStr == [k |-> "nostr"]

\* class SafeString: an object holding the string in its field value.
SafeString(s) == [k |-> "safe", s |-> s]

\* v == null
IsNullish(v) == v.k \in {"undef", "null"}

\* typeof v === "object" || typeof v === "function", for a v that is not null
IsObjectLike(v) == v.k \in {"arr", "obj", "fn", "safe", "nostr"}

\* The members every plain object inherits from Object.prototype; the model
\* carries one of them.
ObjectProtoNames == {Chars("toString")}

\* Object.prototype.toString as a value; called on a plain object it returns
\* "[object Object]".
ProtoToString ==
    Fn(Chars("function toString() { [native code] }"), FALSE,
       Str(Chars("[object Object]")))

HasOwn(o, key) == \E i \in 1..Len(o.e) : o.e[i].key = key

GetOwn(o, key) == o.e[CHOOSE i \in 1..Len(o.e) : o.e[i].key = key].val

\* o[key] on a plain object: an own property, else an inherited one, else undefined.
ObjGet(o, key) ==
    IF HasOwn(o, key) THEN GetOwn(o, key)
    ELSE IF key \in ObjectProtoNames THEN ProtoToString
    ELSE Undef

\* o[key] = val on a plain object: replaces in place, or appends.
ObjSet(o, key, val) ==
    IF HasOwn(o, key)
    THEN Obj([i \in 1..Len(o.e) |->
                 IF o.e[i].key = key THEN Entry(key, val) ELSE o.e[i]])
    ELSE Obj(Append(o.e, Entry(key, val)))

\* A canonical array index: the decimal digits of a natural number.
IsIndexKey(key) == AllDigits(key) /\ (Len(key) = 1 \/ key[1] # "0")

\* String(v); the caller checks CanString first.
RECURSIVE String(_)
String(v) ==
    CASE v.k = "str" -> v.s
      [] v.k = "num" -> IntStr(v.n)
      [] v.k = "bool" -> IF v.b THEN Chars("true") ELSE Chars("false")
      [] v.k = "null" -> Chars("null")
      [] v.k = "undef" -> Chars("undefined")
      [] v.k = "arr" ->
           JoinWith([i \in 1..Len(v.items) |->
                        IF IsNullish(v.items[i]) THEN <<>> ELSE String(v.items[i])],
                    <<",">>)
      [] v.k = "obj" -> Chars("[object Object]")
      [] v.k = "fn" -> v.src
      [] v.k = "safe" -> v.s
      [] OTHER -> <<>>

\* Whether String(v) returns (it raises for an object without a usable toString,
\* also inside an array).
RECURSIVE CanString(_)
CanString(v) ==
    CASE v.k = "nostr" -> FALSE
      [] v.k = "arr" -> \A i \in 1..Len(v.items) : CanString(v.items[i])
      [] OTHER -> TRUE

(***************************************************************************)
(* escapeHtml and the filters                                              *)
(***************************************************************************)

\* escapeHtml with the ampersand replaced last instead of first.
escapeHtml_AmpLast(s) ==
    ReplaceChar(
      ReplaceChar(
        ReplaceChar(
          ReplaceChar(
            ReplaceChar(s, "<", Chars("&lt;")),
            ">", Chars("&gt;")),
          "\"", Chars("&quot;")),
        "'", Chars("&#39;")),
      "&", Chars("&amp;"))

escapeHtml(s) ==
    ReplaceChar(
      ReplaceChar(
        ReplaceChar(
          ReplaceChar(
            ReplaceChar(s, "&", Chars("&amp;")),
            "<", Chars("&lt;")),
          ">", Chars("&gt;")),
        "\"", Chars("&quot;")),
      "'", Chars("&#39;"))

escapeClosingScript(json) ==
    ReplaceAllCI(json, Chars("</script"), Chars("<\\/script"))

\* The own enumerable properties in the order Object.entries and JSON.stringify
\* visit them: canonical array indices first, in ascending numeric order, then
\* the other keys in insertion order.
RECURSIVE SortByIndex(_)
SortByIndex(es) ==
    IF Len(es) = 0 THEN <<>>
    ELSE LET m == CHOOSE i \in 1..Len(es) :
                     \A j \in 1..Len(es) : NatVal(es[i].key) <= NatVal(es[j].key)
         IN  <<es[m]>> \o SortByIndex(SubSeq(es, 1, m - 1) \o SubSeq(es, m + 1, Len(es)))

OwnEntries(v) ==
    CASE v.k = "obj" ->
           SortByIndex(SelectSeq(v.e, LAMBDA x : IsIndexKey(x.key)))
             \o SelectSeq(v.e, LAMBDA x : ~IsIndexKey(x.key))
      [] v.k = "safe" -> <<Entry(Chars("value"), Str(v.s))>>
      [] OTHER -> <<>>

\* The quoted form JSON.stringify gives a string.
JsonEscape(s) ==
    Flatten([i \in 1..Len(s) |->
                CASE s[i] = "\"" -> Chars("\\\"")
                  [] s[i] = "\\" -> Chars("\\\\")
                  [] s[i] = "\n" -> Chars("\\n")
                  [] s[i] = "\t" -> Chars("\\t")
                  [] s[i] = "\r" -> Chars("\\r")
                  [] OTHER -> <<s[i]>>])

JsonQuote(s) == <<"\"">> \o JsonEscape(s) \o <<"\"">>

\* JSON.stringify(v) for a v it has a text for (not undefined, not a function).
RECURSIVE JsonText(_)
JsonText(v) ==
    CASE v.k = "str" -> JsonQuote(v.s)
      [] v.k = "num" -> IntStr(v.n)
      [] v.k = "bool" -> IF v.b THEN Chars("true") ELSE Chars("false")
      [] v.k = "arr" ->
           <<"[">> \o JoinWith([i \in 1..Len(v.items) |->
                                   IF v.items[i].k \in {"undef", "fn"}
                                   THEN Chars("null")
                                   ELSE JsonText(v.items[i])], <<",">>) \o <<"]">>
      [] v.k \in {"obj", "safe", "nostr"} ->
           LET es == SelectSeq(OwnEntries(v), LAMBDA x : x.val.k \notin {"undef", "fn"})
           IN  <<"{">> \o JoinWith([i \in 1..Len(es) |->
                                       JsonQuote(es[i].key) \o <<":">> \o JsonText(es[i].val)],
                                   <<",">>) \o <<"}">>
      [] OTHER -> Chars("null")

\* JSON.stringify returns undefined, not a string, for undefined and for a function.
JsonIsText(v) == v.k \notin {"undef", "fn"}

\* The result of an evaluation that raised instead of returning a value.
Raised == [k |-> "raised"]

FilterNames ==
    {Chars("upper"), Chars("lower"), Chars("safe"), Chars("escapejs"),
     Chars("raw_json"), Chars("raw_json_escaped"), Chars("json_script")}

filter_upper(v) == IF v.k = "str" THEN Str(toUpperCase(v.s)) ELSE v

filter_lower(v) == IF v.k = "str" THEN Str(toLowerCase(v.s)) ELSE v

filter_safe(v) ==
    IF IsNullish(v) THEN SafeString(<<>>)
    ELSE IF ~CanString(v) THEN Raised
    ELSE SafeString(String(v))

filter_escapejs(v) ==
    IF IsNullish(v) THEN Str(Chars("\"\""))
    ELSE IF ~CanString(v) THEN Raised
    ELSE Str(<<"\"">>
             \o ReplaceAllCI(
                  ReplaceChar(
                    ReplaceChar(
                      ReplaceChar(String(v), "\\", Chars("\\\\")),
                      "\"", Chars("\\\"")),
                    "'", Chars("\\'")),
                  Chars("</script"), Chars("<\\/script"))
             \o <<"\"">>)

filter_raw_json(v) ==
    IF JsonIsText(v) THEN SafeString(escapeClosingScript(JsonText(v)))
    ELSE SafeString(Chars("null"))

filter_json_script(v, arg) ==
    IF arg.k # "str" /\ ~IsNullish(arg) /\ ~CanString(arg) THEN Raised
    ELSE
    LET id == IF arg.k = "str" THEN arg.s
              ELSE IF IsNullish(arg) THEN Chars("__data__")
              ELSE String(arg)
        payload == IF JsonIsText(v) THEN escapeClosingScript(JsonText(v))
                   ELSE Chars("null")
    IN  SafeString(Chars("<script id=\"") \o escapeHtml(id)
                     \o Chars("\" type=\"application/json\">") \o payload
                     \o Chars("</script>"))

\* filters[fname](val, farg); filters is a plain object, so a name it does not
\* hold itself may still be found on Object.prototype.
CallFilter(fname, v, arg) ==
    CASE fname = Chars("upper") -> filter_upper(v)
      [] fname = Chars("lower") -> filter_lower(v)
      [] fname = Chars("safe") -> filter_safe(v)
      [] fname = Chars("escapejs") -> filter_escapejs(v)
      [] fname = Chars("raw_json") -> filter_raw_json(v)
      [] fname = Chars("raw_json_escaped") -> filter_raw_json(v)
      [] fname = Chars("json_script") -> filter_json_script(v, arg)
      [] fname \in ObjectProtoNames -> Str(Chars("[object Undefined]"))
      [] OTHER -> v

\* Whether filters[fname] is truthy.
HasFilter(fname) == fname \in FilterNames \cup ObjectProtoNames

(***************************************************************************)
(* Expression evaluator                                                    *)
(***************************************************************************)

RECURSIVE SplitScan(_, _, _, _, _, _, _)
SplitScan(in, sep, i, buf, inSingle, inDouble, escape) ==
    IF i > Len(in) THEN <<buf>>
    ELSE LET ch == in[i] IN
         IF escape
         THEN SplitScan(in, sep, i + 1, Append(buf, ch), inSingle, inDouble, FALSE)
         ELSE IF ch = "\\"
         THEN SplitScan(in, sep, i + 1, Append(buf, ch), inSingle, inDouble, TRUE)
         ELSE IF ch = "'" /\ ~inDouble
         THEN SplitScan(in, sep, i + 1, Append(buf, ch), ~inSingle, inDouble, FALSE)
         ELSE IF ch = "\"" /\ ~inSingle
         THEN SplitScan(in, sep, i + 1, Append(buf, ch), inSingle, ~inDouble, FALSE)
         ELSE IF ~inSingle /\ ~inDouble /\ ch = sep
         THEN <<buf>> \o SplitScan(in, sep, i + 1, <<>>, inSingle, inDouble, FALSE)
         ELSE SplitScan(in, sep, i + 1, Append(buf, ch), inSingle, inDouble, FALSE)

splitUnquoted(in, sep) ==
    LET parts == SplitScan(in, sep, 1, <<>>, FALSE, FALSE, FALSE)
    IN  [i \in 1..Len(parts) |-> Trim(parts[i])]

\* /^-?\d+(\.\d+)?$/ for the integers (the model has no fractions).
IsNumberLiteral(s) ==
    AllDigits(IF Len(s) > 0 /\ s[1] = "-" THEN Tail(s) ELSE s)

NumberOf(s) == IF s[1] = "-" THEN 0 - NatVal(Tail(s)) ELSE NatVal(s)

\* /^"(.*)"$|^'(.*)'$/s
IsQuoted(s) ==
    /\ Len(s) >= 2
    /\ \/ s[1] = "\"" /\ s[Len(s)] = "\""
       \/ s[1] = "'" /\ s[Len(s)] = "'"

\* The length of the match of /^[A-Za-z_$][A-Za-z0-9_$]*/ at position i; 0: no match.
MatchIdent(s, i) ==
    IF i <= Len(s) /\ s[i] \in IdStart
    THEN LET stop == {j \in (i + 1)..Len(s) : s[j] \notin IdChar}
         IN  IF stop = {} THEN Len(s) - i + 1 ELSE Min(stop) - i
    ELSE 0

\* The bracket scan of an index step: from position j with `depth` brackets
\* open, the position after the bracket that closes the first; 0 if none does.
ScanBracket(expr, j, depth) ==
    LET DepthAfter(e) ==
            depth + Cardinality({x \in j..e : expr[x] = "["})
                  - Cardinality({x \in j..e : expr[x] = "]"})
        closed == {e \in j..Len(expr) : DepthAfter(e) = 0}
    IN  IF depth = 0 THEN j
        ELSE IF closed = {} THEN 0
        ELSE Min(closed) + 1

Step(kind, arg) == [kind |-> kind, arg |-> arg]

\* The loop that reads the steps after the first name; i is the position of
\* the next character.  ok = FALSE: the evaluator returns undefined.
RECURSIVE ParseChain(_, _, _)
ParseChain(expr, i, chain) ==
    IF i > Len(expr) THEN [ok |-> TRUE, chain |-> chain]
    ELSE IF expr[i] = "."
    THEN LET n == MatchIdent(expr, i + 1) IN
         IF n = 0 THEN [ok |-> FALSE, chain |-> <<>>]
         ELSE ParseChain(expr, i + 1 + n,
                         Append(chain, Step("prop", SubSeq(expr, i + 1, i + n))))
    ELSE IF expr[i] = "["
    THEN LET j == ScanBracket(expr, i + 1, 1) IN
         IF j = 0 THEN [ok |-> FALSE, chain |-> <<>>]
         ELSE ParseChain(expr, j,
                         Append(chain, Step("index", Trim(SubSeq(expr, i + 1, j - 2)))))
    ELSE IF StartsWithAt(expr, i, <<"(", ")">>)
    THEN ParseChain(expr, i + 2, Append(chain, Step("call", <<>>)))
    ELSE [ok |-> TRUE, chain |-> chain]

\* cur[key] for an object or a function cur.
GetProp(cur, key, context) ==
    CASE cur.k = "obj" -> ObjGet(cur, key)
      [] cur.k = "arr" ->
           IF IsIndexKey(key) /\ NatVal(key) < Len(cur.items)
           THEN cur.items[NatVal(key) + 1]
           ELSE IF key = Chars("length") THEN Num(Len(cur.items))
           ELSE IF key \in ObjectProtoNames THEN ProtoToString
           ELSE Undef
      [] cur.k = "safe" ->
           IF key = Chars("value") THEN Str(cur.s)
           ELSE IF key \in ObjectProtoNames
           THEN Fn(Chars("toString() {\n    return this.value;\n  }"), FALSE,
                   ObjGet(context, Chars("value")))
           ELSE Undef
      [] cur.k = "fn" ->
           \* Function.prototype.toString raises when called on the context.
           IF key \in ObjectProtoNames
           THEN Fn(ProtoToString.src, TRUE, Undef)
           ELSE Undef
      [] OTHER -> Undef

RECURSIVE getValueFromExpr(_, _)
RECURSIVE EvalChain(_, _, _)
EvalChain(chain, cur, context) ==
    IF Len(chain) = 0 THEN cur
    ELSE IF IsNullish(cur) THEN Undef
    ELSE LET step == chain[1]
             rest == Tail(chain)
         IN  CASE step.kind = "prop" ->
                    IF IsObjectLike(cur)
                    THEN EvalChain(rest, GetProp(cur, step.arg, context), context)
                    ELSE Undef
               [] step.kind = "index" ->
                    LET idx == getValueFromExpr(step.arg, context) IN
                    IF idx.k \in {"str", "num"} /\ IsObjectLike(cur)
                    THEN EvalChain(rest, GetProp(cur, String(idx), context), context)
                    ELSE Undef
               [] OTHER ->
                    EvalChain(rest,
                              IF cur.k = "fn" /\ ~cur.throws THEN cur.ret ELSE Undef,
                              context)

getValueFromExpr(expr0, context) ==
    LET expr == Trim(expr0) IN
    IF expr = Chars("true") THEN Bool(TRUE)
    ELSE IF expr = Chars("false") THEN Bool(FALSE)
    ELSE IF expr = Chars("null") \/ expr = Chars("undefined") THEN Null
    ELSE IF IsNumberLiteral(expr) THEN Num(NumberOf(expr))
    ELSE IF IsQuoted(expr) THEN Str(SubSeq(expr, 2, Len(expr) - 1))
    ELSE LET n == MatchIdent(expr, 1) IN
         IF n = 0 THEN Undef
         ELSE LET parsed == ParseChain(expr, n + 1, <<>>) IN
              IF ~parsed.ok THEN Undef
              ELSE EvalChain(parsed.chain, ObjGet(context, SubSeq(expr, 1, n)), context)

\* One pass of applyFilters' loop: the filter expression f applied to val.
ApplyFilter(val, f, context) ==
    IF Len(f) = 0 \/ val.k = "raised" THEN val
    ELSE LET idx == IndexOfFrom(f, <<":">>, 1)
             fname == IF idx = 0 THEN f ELSE Trim(SubSeq(f, 1, idx - 1))
             farg == IF idx = 0 THEN Undef
                     ELSE getValueFromExpr(Trim(SubSeq(f, idx + 1, Len(f))), context)
         IN  IF HasFilter(fname) THEN CallFilter(fname, val, farg) ELSE val

RECURSIVE applyFilters(_, _, _)
applyFilters(value, filterExprs, context) ==
    IF Len(filterExprs) = 0 THEN value
    ELSE applyFilters(ApplyFilter(value, filterExprs[1], context),
                      Tail(filterExprs), context)

evalVarExpression(expr, context) ==
    LET parts == splitUnquoted(expr, "|")
    IN  applyFilters(getValueFromExpr(parts[1], context), Tail(parts), context)

\* L op R on two strings
StrCompare(L, R, op) ==
    CASE op = Chars(">") -> StrLess(R, L)
      [] op = Chars("<") -> StrLess(L, R)
      [] op = Chars(">=") -> ~StrLess(L, R)
      [] op = Chars("<=") -> ~StrLess(R, L)
      [] op = Chars("==") -> L = R
      [] op = Chars("!=") -> L # R
      [] OTHER -> FALSE

NumCompare(l, r, op) ==
    CASE op = Chars(">") -> l > r
      [] op = Chars("<") -> l < r
      [] op = Chars(">=") -> l >= r
      [] op = Chars("<=") -> l <= r
      [] op = Chars("==") -> l = r
      [] op = Chars("!=") -> l # r
      [] OTHER -> FALSE

\* "true", "false", or "raised" when String() of an operand raises.
safeCompare(left, right, op) ==
    IF left.k = "num" /\ right.k = "num"
    THEN IF NumCompare(left.n, right.n, op) THEN "true" ELSE "false"
    ELSE IF (~IsNullish(left) /\ ~CanString(left))
            \/ (~IsNullish(right) /\ ~CanString(right))
    THEN "raised"
    ELSE LET L == IF IsNullish(left) THEN <<>> ELSE String(left)
             R == IF IsNullish(right) THEN <<>> ELSE String(right)
         IN  IF StrCompare(L, R, op) THEN "true" ELSE "false"

\* !!v
Truthy(v) ==
    CASE v.k \in {"undef", "null"} -> FALSE
      [] v.k = "bool" -> v.b
      [] v.k = "num" -> v.n # 0
      [] v.k = "str" -> Len(v.s) > 0
      [] OTHER -> TRUE

\* (==|!=|>=|<=|>|<), in the order the alternation tries them
CompareOps ==
    <<Chars("=="), Chars("!="), Chars(">="), Chars("<="), Chars(">"), Chars("<")>>

LineTerminators == {"\n", "\r"}

NoLineBreak(s) == \A i \in 1..Len(s) : s[i] \notin LineTerminators

\* /^(.*?)\s*(==|!=|>=|<=|>|<)\s*(.*?)$/ with the first group g characters long.
CmpMatchAt(expr, g) ==
    LET q == SkipWS(expr, g + 1)
        alts == {a \in 1..Len(CompareOps) : StartsWithAt(expr, q, CompareOps[a])}
    IN  IF alts = {} \/ ~NoLineBreak(SubSeq(expr, 1, g))
        THEN [ok |-> FALSE]
        ELSE LET a == CHOOSE x \in alts : \A y \in alts : x <= y
                 r == SkipWS(expr, q + Len(CompareOps[a]))
             IN  IF NoLineBreak(SubSeq(expr, r, Len(expr)))
                 THEN [ok |-> TRUE, left |-> SubSeq(expr, 1, g), op |-> CompareOps[a],
                       right |-> SubSeq(expr, r, Len(expr))]
                 ELSE [ok |-> FALSE]

\* expr.match(...): the lazy first group takes the shortest length that matches.
CmpMatchFrom(expr, g0) ==
    LET gs == {g \in g0..Len(expr) : CmpMatchAt(expr, g).ok}
    IN  IF gs = {} THEN [ok |-> FALSE] ELSE CmpMatchAt(expr, Min(gs))

\* "true", "false" or "raised"
\* evalTestExpression on the trimmed expression and what expr.match gave.
TestMatched(cmp, expr, context) ==
    IF cmp.ok
    THEN safeCompare(getValueFromExpr(cmp.left, context),
                     getValueFromExpr(cmp.right, context), cmp.op)
    ELSE IF Truthy(getValueFromExpr(expr, context)) THEN "true" ELSE "false"

TestTrimmed(expr, context) ==
    IF Len(expr) = 0 THEN "false"
    ELSE TestMatched(CmpMatchFrom(expr, 0), expr, context)

evalTestExpression(expr0, context) == TestTrimmed(Trim(expr0), context)

(***************************************************************************)
(* Lexer                                                                   *)
(***************************************************************************)

Pos(line, col, index) == [line |-> line, col |-> col, index |-> index]

\* The line and column of the character at the 0-based index.
countLineCol(s, index) ==
    LET breaks == {i \in 1..index : s[i] = "\n"}
    IN  Pos(1 + Cardinality(breaks),
            IF breaks = {} THEN index + 1 ELSE index - Max(breaks) + 1,
            index)

Token(type, content, pos) == [type |-> type, content |-> content, pos |-> pos]

\* The three delimiter pairs of the pattern, in the order of its alternatives.
Delims ==
    <<[open |-> <<"{", "{">>, close |-> <<"}", "}">>, type |-> "var"],
      [open |-> <<"{", "%">>, close |-> <<"%", "}">>, type |-> "tag"],
      [open |-> <<"{", "#">>, close |-> <<"#", "}">>, type |-> "comment"]>>

\* DelimAt of a pattern whose closers are optional: an opener without a closer
\* after it matches up to the end of the template.
DelimAt_OpenEnded(s, p) ==
    LET ds == {d \in 1..3 : StartsWithAt(s, p, Delims[d].open)}
    IN  IF ds = {} THEN [found |-> FALSE]
        ELSE LET d == CHOOSE x \in ds : TRUE
                 c == IndexOfFrom(s, Delims[d].close, p + 2)
                 q == IF c # 0 THEN c ELSE Len(s) + 1
                 raw == SubSeq(s, p + 2, q - 1)
             IN  [found |-> TRUE, start |-> p, next |-> q + 2,
                  type |-> Delims[d].type,
                  content |-> IF Delims[d].type = "comment" THEN raw ELSE Trim(raw)]

\* The match of the pattern that starts at position p, if one does: an opener
\* at p and the first closer after it (the groups are lazy).
DelimAt(s, p) ==
    LET ds == {d \in 1..3 : /\ StartsWithAt(s, p, Delims[d].open)
                            /\ IndexOfFrom(s, Delims[d].close, p + 2) # 0}
    IN  IF ds = {} THEN [found |-> FALSE]
        ELSE LET d == CHOOSE x \in ds : TRUE
                 q == IndexOfFrom(s, Delims[d].close, p + 2)
                 raw == SubSeq(s, p + 2, q - 1)
             IN  [found |-> TRUE, start |-> p, next |-> q + 2,
                  type |-> Delims[d].type,
                  content |-> IF Delims[d].type = "comment" THEN raw ELSE Trim(raw)]

\* re.exec(template): the leftmost match at or after position p.
NextDelim(s, p) ==
    LET starts == {i \in p..Len(s) : DelimAt(s, i).found}
    IN  IF starts = {} THEN [found |-> FALSE] ELSE DelimAt(s, Min(starts))

\* The loop of lex; last is the 1-based position after the previous match.
RECURSIVE LexFrom(_, _)
LexFrom(s, last) ==
    LET m == NextDelim(s, last) IN
    IF ~m.found
    THEN IF last <= Len(s)
         THEN <<Token("text", SubSeq(s, last, Len(s)), countLineCol(s, last - 1))>>
         ELSE <<>>
    ELSE (IF m.start > last
          THEN <<Token("text", SubSeq(s, last, m.start - 1), countLineCol(s, last - 1))>>
          ELSE <<>>)
         \o <<Token(m.type, m.content, countLineCol(s, m.start - 1))>>
         \o LexFrom(s, m.next)

lex(template) == LexFrom(template, 1)

(***************************************************************************)
(* Parser                                                                  *)
(***************************************************************************)

\* A branch test: a string, or null for else.
Test(s) == [null |-> FALSE, s |-> s]
NullTest == [null |-> TRUE, s |-> <<>>]
Branch(test, body) == [test |-> test, body |-> body]

TextNode(text) == [type |-> "text", text |-> text]
VarNode(expr, pos) == [type |-> "var", expr |-> expr, pos |-> pos]
IfNode(branches, pos) == [type |-> "if", branches |-> branches, pos |-> pos]
ForNode(varNames, iterableExpr, body, pos) ==
    [type |-> "for", varNames |-> varNames, iterableExpr |-> iterableExpr,
     body |-> body, pos |-> pos]
IncludeNode(path, pos) == [type |-> "include", path |-> path, pos |-> pos]
BlockNode(name, body, pos) == [type |-> "block", name |-> name, body |-> body, pos |-> pos]
ExtendsNode(path, pos) == [type |-> "extends", path |-> path, pos |-> pos]

IfFrame(test, pos) ==
    [type |-> "if-frame", nodes |-> <<>>, branches |-> <<Branch(Test(test), <<>>)>>,
     current |-> 1, tokenPos |-> pos]
ForFrame(varNames, iterableExpr, pos) ==
    [type |-> "for", nodes |-> <<>>, varNames |-> varNames,
     iterableExpr |-> iterableExpr, tokenPos |-> pos]
BlockFrame(name, pos) == [type |-> "block", nodes |-> <<>>, name |-> name, tokenPos |-> pos]

\* The parser's state: the frame stack (the top is the last element), the
\* top-level nodes, and the error it threw, if any.
PState(stack, out) == [st |-> "run", stack |-> stack, out |-> out, error |-> <<>>]

ErrorAt(what, pos) ==
    what \o Chars(" at ") \o IntStr(pos.line) \o <<":">> \o IntStr(pos.col)

Throw(ps, what, pos) ==
    [st |-> "error", stack |-> ps.stack, out |-> ps.out, error |-> ErrorAt(what, pos)]

\* pushNode: into the current branch of an if frame on top, the nodes of
\* another frame on top, or the top-level output.
pushNode(ps, n) ==
    IF Len(ps.stack) = 0 THEN [ps EXCEPT !.out = Append(@, n)]
    ELSE LET d == Len(ps.stack)
             top == ps.stack[d]
         IN  IF top.type = "if-frame"
             THEN [ps EXCEPT !.stack[d].branches[top.current].body = Append(@, n)]
             ELSE [ps EXCEPT !.stack[d].nodes = Append(@, n)]

Push(ps, frame) == [ps EXCEPT !.stack = Append(@, frame)]

Pop(ps) == [ps EXCEPT !.stack = SubSeq(@, 1, Len(@) - 1)]

\* s.split(","): the pieces between the commas.
RECURSIVE SplitComma(_, _)
SplitComma(s, buf) ==
    IF Len(s) = 0 THEN <<buf>>
    ELSE IF s[1] = "," THEN <<buf>> \o SplitComma(Tail(s), <<>>)
    ELSE SplitComma(Tail(s), Append(buf, s[1]))

\* /^for\s+(.+?)\s+in\s+([\s\S]+)$/ with the first \s+ taking w characters and
\* the first group g characters.
ForMatchAt(c, w, g) ==
    LET a == 4 + w
        q == a + g
        r == SkipWS(c, q)
        u == SkipWS(c, r + 2)
    IN  IF /\ StartsWithAt(c, 1, Chars("for"))
           /\ w >= 1 /\ \A i \in 4..(3 + w) : i <= Len(c) /\ c[i] \in WS
           /\ g >= 1 /\ q - 1 <= Len(c) /\ NoLineBreak(SubSeq(c, a, q - 1))
           /\ r > q
           /\ StartsWithAt(c, r, Chars("in"))
           /\ u > r + 2
           /\ u <= Len(c)
        THEN [ok |-> TRUE, names |-> SubSeq(c, a, q - 1), iter |-> SubSeq(c, u, Len(c))]
        ELSE [ok |-> FALSE]

\* The match the regular expression engine finds first: the longest first \s+,
\* then the shortest first group.
ForMatch(c) ==
    LET cand == {wg \in (1..Len(c)) \X (1..Len(c)) : ForMatchAt(c, wg[1], wg[2]).ok}
    IN  IF cand = {} THEN [ok |-> FALSE]
        ELSE LET best == CHOOSE x \in cand :
                            \A y \in cand : x[1] > y[1] \/ (x[1] = y[1] /\ x[2] <= y[2])
             IN  ForMatchAt(c, best[1], best[2])

\* /^<word>\s+["']([\s\S]+?)["']$/ for include and extends
QuotedArgMatch(c, word) ==
    LET q == SkipWS(c, Len(word) + 1) IN
    IF /\ StartsWithAt(c, 1, word)
       /\ q > Len(word) + 1
       /\ q <= Len(c) /\ c[q] \in {"\"", "'"}
       /\ Len(c) >= q + 2
       /\ c[Len(c)] \in {"\"", "'"}
    THEN [ok |-> TRUE, path |-> SubSeq(c, q + 1, Len(c) - 1)]
    ELSE [ok |-> FALSE]

\* /^block\s+(\w+)$/
BlockMatch(c) ==
    LET q == SkipWS(c, 6) IN
    IF /\ StartsWithAt(c, 1, Chars("block"))
       /\ q > 6
       /\ q <= Len(c)
       /\ \A i \in q..Len(c) : c[i] \in WordChars
    THEN [ok |-> TRUE, name |-> SubSeq(c, q, Len(c))]
    ELSE [ok |-> FALSE]

\* The first word of the tag: splitUnquoted(t.content, " ")[0]
TagOf(t) == splitUnquoted(t.content, " ")[1]

Top(ps) == ps.stack[Len(ps.stack)]

TopIs(ps, type) == Len(ps.stack) > 0 /\ Top(ps).type = type

\* One pass of the parser's loop: the token t consumed in the state ps.
\* The endfor tag with only the empty stack refused: a frame of another type
\* on top is popped and dropped.
ParseEndfor_AnyFrame(ps, t) ==
    IF Len(ps.stack) = 0
    THEN Throw(ps, Chars("Unexpected endfor"), t.pos)
    ELSE IF ~TopIs(ps, "for") THEN Pop(ps)
    ELSE pushNode(Pop(ps), ForNode(Top(ps).varNames, Top(ps).iterableExpr,
                                   Top(ps).nodes, Top(ps).tokenPos))

\* The endfor tag.
ParseEndfor(ps, t) ==
    IF ~TopIs(ps, "for")
    THEN Throw(Pop(ps), Chars("Unexpected endfor"), t.pos)
    ELSE pushNode(Pop(ps), ForNode(Top(ps).varNames, Top(ps).iterableExpr,
                                   Top(ps).nodes, Top(ps).tokenPos))

ParseTag(ps, t) ==
    LET tag == TagOf(t) IN
    CASE tag = Chars("if") ->
           Push(ps, IfFrame(Trim(SliceFrom(t.content, 2)), t.pos))
      [] tag = Chars("elif") \/ tag = Chars("else") ->
           IF ~TopIs(ps, "if-frame")
           THEN Throw(ps, Chars("Unexpected ") \o tag, t.pos)
           ELSE LET d == Len(ps.stack)
                    cond == IF tag = Chars("elif")
                            THEN Test(Trim(SliceFrom(t.content, 4)))
                            ELSE NullTest
                IN  [ps EXCEPT !.stack[d].branches = Append(@, Branch(cond, <<>>)),
                               !.stack[d].current = Len(Top(ps).branches) + 1]
      [] tag = Chars("endif") ->
           IF ~TopIs(ps, "if-frame")
           THEN Throw(Pop(ps), Chars("Unexpected endif"), t.pos)
           ELSE pushNode(Pop(ps), IfNode(Top(ps).branches, Top(ps).tokenPos))
      [] tag = Chars("for") ->
           LET m == ForMatch(t.content) IN
           IF ~m.ok THEN Throw(ps, Chars("Invalid for tag"), t.pos)
           ELSE LET pieces == SplitComma(m.names, <<>>)
                    trimmed == [i \in 1..Len(pieces) |-> Trim(pieces[i])]
                    varNames == SelectSeq(trimmed, LAMBDA x : Len(x) > 0)
                IN  Push(ps, ForFrame(varNames, Trim(m.iter), t.pos))
      [] tag = Chars("endfor") -> ParseEndfor(ps, t)
      [] tag = Chars("include") ->
           LET m == QuotedArgMatch(t.content, Chars("include")) IN
           IF ~m.ok THEN Throw(ps, Chars("Invalid include"), t.pos)
           ELSE pushNode(ps, IncludeNode(m.path, t.pos))
      [] tag = Chars("block") ->
           LET m == BlockMatch(t.content) IN
           IF ~m.ok THEN Throw(ps, Chars("Invalid block"), t.pos)
           ELSE Push(ps, BlockFrame(m.name, t.pos))
      [] tag = Chars("endblock") ->
           IF ~TopIs(ps, "block")
           THEN Throw(Pop(ps), Chars("Unexpected endblock"), t.pos)
           ELSE pushNode(Pop(ps), BlockNode(Top(ps).name, Top(ps).nodes, Top(ps).tokenPos))
      [] tag = Chars("extends") ->
           LET m == QuotedArgMatch(t.content, Chars("extends")) IN
           IF ~m.ok THEN Throw(ps, Chars("Invalid extends"), t.pos)
           ELSE pushNode(ps, ExtendsNode(m.path, t.pos))
      [] OTHER ->
           pushNode(ps, TextNode(Chars("{% ") \o t.content \o Chars(" %}")))

ParseToken(ps, t) ==
    CASE t.type = "comment" -> ps
      [] t.type = "text" -> pushNode(ps, TextNode(t.content))
      [] t.type = "var" -> pushNode(ps, VarNode(t.content, t.pos))
      [] OTHER -> ParseTag(ps, t)

\* The check after the loop with the error at the outermost open frame.
ParseEnd_Outermost(ps) ==
    IF Len(ps.stack) > 0
    THEN Throw(ps, Chars("Unclosed tag"), ps.stack[1].tokenPos)
    ELSE [ps EXCEPT !.st = "done"]

\* The check after the loop: an open frame is an error at the innermost
\* frame's opening tag.
ParseEnd(ps) ==
    IF Len(ps.stack) > 0
    THEN Throw(ps, Chars("Unclosed tag"), Top(ps).tokenPos)
    ELSE [ps EXCEPT !.st = "done"]

RECURSIVE ParseFrom(_, _, _)
ParseFrom(ps, tokens, i) ==
    IF ps.st = "error" THEN ps
    ELSE IF i > Len(tokens) THEN ParseEnd(ps)
    ELSE ParseFrom(ParseToken(ps, tokens[i]), tokens, i + 1)

\* parse(tokens): st = "done" with the tree in out, or st = "error".
parse(tokens) == ParseFrom(PState(<<>>, <<>>), tokens, 1)

(***************************************************************************)
(* Template store                                                          *)
(***************************************************************************)

\* What the template directory holds at a path it has no file for.
NoFile == [exists |-> FALSE, src |-> <<>>]
File(src) == [exists |-> TRUE, src |-> src]

FileAt(fs, path) == IF path \in DOMAIN fs THEN fs[path] ELSE NoFile

\* class Template; id tells one instance from another.
Template(path, src, ast, id) == [path |-> path, src |-> src, ast |-> ast, id |-> id]

CountOf(f, path) == IF path \in DOMAIN f THEN f[path] ELSE 0

Inc(f, path) ==
    [q \in DOMAIN f \cup {path} |-> IF q = path THEN CountOf(f, path) + 1 ELSE f[q]]

\* new TemplateLoader(dir): an empty cache.  reads and parses count the calls
\* of readFile and of lex/parse per path; nextId numbers the instances made;
\* served holds, per path, the instances load has returned.
NewLoader ==
    [cache |-> <<>>, nextId |-> 1, reads |-> <<>>, parses |-> <<>>, served |-> <<>>]

ServedOf(L, path) == IF path \in DOMAIN L.served THEN L.served[path] ELSE {}

Serve(L, path, tpl) ==
    [L EXCEPT !.served = [q \in DOMAIN @ \cup {path} |->
                             IF q = path THEN ServedOf(L, path) \cup {tpl} ELSE @[q]]]

\* What runs through a render: the loader, and the branch tests evaluated and
\* branch bodies entered so far.
Env(L, events) == [loader |-> L, events |-> events]

Loaded(tpl, L) ==
    [st |-> "ok", tpl |-> tpl, L |-> Serve(L, tpl.path, tpl), error |-> <<>>]
LoadFailed(error, L) == [st |-> "raised", tpl |-> <<>>, L |-> L, error |-> error]

\* cache.set(relpath, tpl) and the return of load.
Cached(tpl, L, relpath) ==
    Loaded(tpl, [L EXCEPT !.cache = [q \in DOMAIN @ \cup {relpath} |->
                                        IF q = relpath THEN tpl ELSE @[q]],
                          !.nextId = @ + 1])

\* Parsed of a load that enters the path into the cache before it looks at
\* what the parser gave.
Parsed_CachedBeforeCheck(ps, src, L, relpath) ==
    IF ps.st = "error"
    THEN LoadFailed(ps.error,
                    [L EXCEPT !.cache = [q \in DOMAIN @ \cup {relpath} |->
                                            IF q = relpath
                                            THEN Template(relpath, src, ps.out, L.nextId)
                                            ELSE @[q]],
                              !.nextId = @ + 1])
    ELSE Cached(Template(relpath, src, ps.out, L.nextId), L, relpath)

\* load after parse(lex(src)) gave ps.
Parsed(ps, src, L, relpath) ==
    IF ps.st = "error" THEN LoadFailed(ps.error, L)
    ELSE Cached(Template(relpath, src, ps.out, L.nextId), L, relpath)

\* load after readFile gave f.
ReadFile(f, L, relpath) ==
    IF ~f.exists THEN LoadFailed(Chars("NotFound"), L)
    ELSE Parsed(parse(lex(f.src)), f.src, [L EXCEPT !.parses = Inc(@, relpath)],
                relpath)

\* load without the look into the cache.
load_Uncached(L, relpath, fs) ==
    ReadFile(FileAt(fs, relpath), [L EXCEPT !.reads = Inc(@, relpath)], relpath)

\* TemplateLoader.load(relpath) on the directory fs.
load(L, relpath, fs) ==
    IF relpath \in DOMAIN L.cache THEN Loaded(L.cache[relpath], L)
    ELSE ReadFile(FileAt(fs, relpath), [L EXCEPT !.reads = Inc(@, relpath)], relpath)

(***************************************************************************)
(* Renderer                                                                *)
(***************************************************************************)

\* The depth of nested render calls the JavaScript stack takes before it
\* raises a RangeError.
StackLimit == 12

Ok(out, env) == [st |-> "ok", out |-> out, env |-> env, error |-> <<>>]
Raise(error, env) == [st |-> "raised", out |-> <<>>, env |-> env, error |-> error]

Logged(env, ev, what) ==
    [env EXCEPT !.events = Append(@, [ev |-> ev, what |-> what])]

\* The first pass of renderNodes: blocks[n.name] = n.body for every top-level
\* block, in order; a later block of the same name replaces an earlier one.
RECURSIVE CollectBlocks(_, _)
CollectBlocks(nodes, blocks) ==
    IF Len(nodes) = 0 THEN blocks
    ELSE CollectBlocks(Tail(nodes),
                       IF nodes[1].type = "block"
                       THEN ObjSet(blocks, nodes[1].name, nodes[1].body)
                       ELSE blocks)

\* The path of the last top-level extends node; hasExtends is whether there is one.
ExtendsOf(nodes) ==
    LET at == {i \in 1..Len(nodes) : nodes[i].type = "extends"}
    IN  IF at = {} THEN [hasExtends |-> FALSE, extendsPath |-> <<>>]
        ELSE [hasExtends |-> TRUE, extendsPath |-> nodes[Max(at)].path]

\* childBlocks[name] of a plain object: "own" with the body, "inherited" for a
\* member of Object.prototype (truthy, and not a list of nodes), or "none".
BlockLookup(blocks, name) ==
    IF HasOwn(blocks, name) THEN [found |-> "own", body |-> GetOwn(blocks, name)]
    ELSE IF name \in ObjectProtoNames THEN [found |-> "inherited", body |-> <<>>]
    ELSE [found |-> "none", body |-> <<>>]

\* The var case of renderNode, given the value of the expression.
RenderValue(val) ==
    IF IsNullish(val) THEN <<>>
    ELSE IF val.k = "safe" THEN val.s
    ELSE IF CanString(val) THEN escapeHtml(String(val))
    ELSE <<>>

\* { ...context } with the loop variables of one iteration set.
RECURSIVE BindAll(_, _, _, _)
BindAll(ctx, names, vals, j) ==
    IF j > Len(names) THEN ctx
    ELSE BindAll(ObjSet(ctx, names[j], vals[j]), names, vals, j + 1)

ChildCtxOfItem(context, varNames, it) ==
    LET copy == Obj(OwnEntries(context))
        At(j) == IF it.k = "arr" /\ j <= Len(it.items) THEN it.items[j] ELSE Undef
    IN  IF Len(varNames) = 1 THEN ObjSet(copy, varNames[1], it)
        ELSE BindAll(copy, varNames, [j \in 1..Len(varNames) |-> At(j)], 1)

ChildCtxOfEntry(context, varNames, entry) ==
    LET copy == Obj(OwnEntries(context))
    IN  IF Len(varNames) = 1 THEN ObjSet(copy, varNames[1], entry.val)
        ELSE IF Len(varNames) >= 2
        THEN ObjSet(ObjSet(copy, varNames[1], Str(entry.key)), varNames[2], entry.val)
        ELSE copy

\* The contexts of the iterations of a for node, in order.
EntryContexts(entries, n, context) ==
    [i \in 1..Len(entries) |-> ChildCtxOfEntry(context, n.varNames, entries[i])]

IterableContexts(iterable, n, context) ==
    IF iterable.k = "arr"
    THEN [i \in 1..Len(iterable.items) |->
             ChildCtxOfItem(context, n.varNames, iterable.items[i])]
    ELSE IF iterable.k \in {"obj", "safe", "nostr"}
    THEN EntryContexts(OwnEntries(iterable), n, context)
    ELSE <<>>

\* getValueFromExpr(n.iterableExpr, context) || []
OrEmpty(got) == IF Truthy(got) THEN got ELSE Arr(<<>>)

LoopContexts(n, context) ==
    IterableContexts(OrEmpty(getValueFromExpr(n.iterableExpr, context)), n, context)

\* out += r, or the exception r raised.
Then(acc, r) ==
    IF r.st = "ok" THEN Ok(acc.out \o r.out, r.env) ELSE r

WithLoader(env, L) == [env EXCEPT !.loader = L]

\* The var case of renderNode, given what evalVarExpression gave.
VarResult(val, env) ==
    IF val.k = "raised" THEN Raise(Chars("TypeError"), env)
    ELSE Ok(RenderValue(val), env)

\* br.test == null || evalTestExpression(br.test, context), and the tests
\* evaluated so far.
TestOf(br, context) ==
    IF br.test.null THEN "true" ELSE evalTestExpression(br.test.s, context)

TestLogged(br, i, env) ==
    IF br.test.null THEN env ELSE Logged(env, "test", i)

RECURSIVE renderNodes(_, _, _, _, _)
RECURSIVE renderNode(_, _, _, _, _)
RECURSIVE RenderEach(_, _, _, _, _, _)
RECURSIVE RenderLoaded(_, _, _, _, _)
RECURSIVE RenderBranches(_, _, _, _, _, _)
RECURSIVE BranchTaken(_, _, _, _, _, _, _)
RECURSIVE RenderLoop(_, _, _, _, _, _)
RECURSIVE renderParentWithChild(_, _, _, _, _, _)
RECURSIVE ComposeLoaded(_, _, _, _, _, _)
RECURSIVE ComposeEach(_, _, _, _, _, _, _)

\* RenderLoaded of a renderer that renders a template at most once per
\* render: a template already in the cache when it is loaded renders nothing.
RenderLoaded_OncePerPath(ld, context, env, fs, depth) ==
    IF ld.st # "ok" THEN Raise(ld.error, WithLoader(env, ld.L))
    ELSE IF ld.tpl.path \in DOMAIN env.loader.cache
    THEN Ok(<<>>, WithLoader(env, ld.L))
    ELSE renderNodes(ld.tpl.ast, context, WithLoader(env, ld.L), fs, depth + 1)

\* renderNodes(tpl.ast, context, loader) on what loader.load gave.
RenderLoaded(ld, context, env, fs, depth) ==
    IF ld.st # "ok" THEN Raise(ld.error, WithLoader(env, ld.L))
    ELSE renderNodes(ld.tpl.ast, context, WithLoader(env, ld.L), fs, depth + 1)

\* BranchTaken that takes a branch with a null test for one whose test fails.
BranchTaken_ElseSkipped(t, branches, i, context, env, fs, depth) ==
    IF t = "raised" THEN Raise(Chars("TypeError"), env)
    ELSE IF t = "true" /\ ~branches[i].test.null
    THEN renderNodes(branches[i].body, context, Logged(env, "body", i), fs, depth + 1)
    ELSE RenderBranches(branches, i + 1, context, env, fs, depth)

\* The if case of renderNode after the test t of branch i: the body of the
\* branch when the test holds, the next branch when it does not.
BranchTaken(t, branches, i, context, env, fs, depth) ==
    IF t = "raised" THEN Raise(Chars("TypeError"), env)
    ELSE IF t = "true"
    THEN renderNodes(branches[i].body, context, Logged(env, "body", i), fs, depth + 1)
    ELSE RenderBranches(branches, i + 1, context, env, fs, depth)

\* The if case of renderNode: the loop over the branches from branch i on.
RenderBranches(branches, i, context, env, fs, depth) ==
    IF i > Len(branches) THEN Ok(<<>>, env)
    ELSE BranchTaken(TestOf(branches[i], context), branches, i, context,
                     TestLogged(branches[i], i, env), fs, depth)

\* The for case of renderNode: the iterations from the i-th on, acc so far.
RenderLoop(body, ctxs, i, acc, fs, depth) ==
    IF i > Len(ctxs) \/ acc.st # "ok" THEN acc
    ELSE RenderLoop(body, ctxs, i + 1,
                    Then(acc, renderNodes(body, ctxs[i], acc.env, fs, depth + 1)),
                    fs, depth)

renderNode(n, context, env, fs, depth) ==
    CASE n.type = "text" -> Ok(n.text, env)
      [] n.type = "var" -> VarResult(evalVarExpression(n.expr, context), env)
      [] n.type = "include" ->
           RenderLoaded(load(env.loader, n.path, fs), context, env, fs, depth)
      [] n.type = "block" -> renderNodes(n.body, context, env, fs, depth + 1)
      [] n.type = "if" -> RenderBranches(n.branches, 1, context, env, fs, depth)
      [] n.type = "for" ->
           RenderLoop(n.body, LoopContexts(n, context), 1, Ok(<<>>, env), fs, depth)
      [] OTHER -> Ok(<<>>, env)

\* RenderEach of a renderer whose loops bind their names in context itself,
\* not in a copy: the nodes after a loop see the bindings of its last iteration.
RenderEach_SharedContext(nodes, i, acc, context, fs, depth) ==
    IF i > Len(nodes) \/ acc.st # "ok" THEN acc
    ELSE RenderEach(nodes, i + 1,
                    Then(acc, renderNode(nodes[i], context, acc.env, fs, depth)),
                    IF nodes[i].type = "for" /\ Len(LoopContexts(nodes[i], context)) > 0
                    THEN LoopContexts(nodes[i], context)[
                             Len(LoopContexts(nodes[i], context))]
                    ELSE context,
                    fs, depth)

\* The last loop of renderNodes: out += renderNode(n) from node i on.
RenderEach(nodes, i, acc, context, fs, depth) ==
    IF i > Len(nodes) \/ acc.st # "ok" THEN acc
    ELSE RenderEach(nodes, i + 1,
                    Then(acc, renderNode(nodes[i], context, acc.env, fs, depth)),
                    context, fs, depth)

renderNodes(nodes, context, env, fs, depth) ==
    IF depth > StackLimit THEN Raise(Chars("RangeError"), env)
    ELSE IF ExtendsOf(nodes).hasExtends
    THEN ComposeLoaded(load(env.loader, ExtendsOf(nodes).extendsPath, fs), context,
                       env, CollectBlocks(nodes, Obj(<<>>)), fs, depth)
    ELSE RenderEach(nodes, 1, Ok(<<>>, env), context, fs, depth)

\* renderParentWithChild(parent.ast, context, loader, childBlocks) on what
\* loader.load gave.
ComposeLoaded(ld, context, env, childBlocks, fs, depth) ==
    IF ld.st # "ok" THEN Raise(ld.error, WithLoader(env, ld.L))
    ELSE renderParentWithChild(ld.tpl.ast, context, WithLoader(env, ld.L),
                               childBlocks, fs, depth + 1)

\* The loop of renderParentWithChild from node i on.
ComposeEach(parentNodes, i, acc, context, childBlocks, fs, depth) ==
    IF i > Len(parentNodes) \/ acc.st # "ok" THEN acc
    ELSE ComposeEach(parentNodes, i + 1,
           Then(acc,
             CASE parentNodes[i].type = "block" ->
                    IF BlockLookup(childBlocks, parentNodes[i].name).found = "inherited"
                    THEN Raise(Chars("TypeError: nodes is not iterable"), acc.env)
                    ELSE renderNodes(
                           IF BlockLookup(childBlocks, parentNodes[i].name).found = "own"
                           THEN BlockLookup(childBlocks, parentNodes[i].name).body
                           ELSE parentNodes[i].body,
                           context, acc.env, fs, depth + 1)
               [] parentNodes[i].type = "extends" ->
                    ComposeLoaded(load(acc.env.loader, parentNodes[i].path, fs),
                                  context, acc.env, childBlocks, fs, depth)
               [] parentNodes[i].type = "include" ->
                    RenderLoaded(load(acc.env.loader, parentNodes[i].path, fs),
                                 context, acc.env, fs, depth)
               [] OTHER ->
                    renderNodes(<<parentNodes[i]>>, context, acc.env, fs, depth + 1)),
           context, childBlocks, fs, depth)

renderParentWithChild(parentNodes, context, env, childBlocks, fs, depth) ==
    IF depth > StackLimit THEN Raise(Chars("RangeError"), env)
    ELSE ComposeEach(parentNodes, 1, Ok(<<>>, env), context, childBlocks, fs, depth)

\* renderTemplate(path, context) with the module's loader in the state L.
renderTemplate(path, context, L, fs) ==
    RenderLoaded(load(L, path, fs), context, Env(L, <<>>), fs, 0)

(***************************************************************************)
(* Rendering one Variable node                                             *)
(***************************************************************************)

\* The values the variable v takes.
VarValues ==
    {Str(Chars("<b>&'\"")), Str(Chars("a&amp;")), Num(-3), Bool(TRUE), Null,
     Arr(<<Str(Chars("<")), Null, Num(1)>>),
     Obj(<<Entry(Chars("k"), Str(Chars(">")))>>),
     Fn(Chars("()=>'<'"), FALSE, Str(Chars("'r'"))),
     SafeString(Chars("<i>&")),
     NoStr}

VarContexts ==
    {Obj(<<Entry(Chars("v"), val)>>) : val \in VarValues} \cup {Obj(<<>>)}

VarBases == {Chars("v"), Chars("v()"), Chars("v[0]"), Chars("'<q>'")}

FilterSegments ==
    {Chars("upper"), Chars("safe"), Chars("escapejs"), Chars("raw_json"),
     Chars("json_script:v"), Chars("nofilter"), Chars("toString")}

\* The longest filter chain of an expression.
MaxFilters == 2

SeqsUpTo(S, n) == UNION {[1..m -> S] : m \in 0..n}

VarExprs ==
    {JoinWith(<<b>> \o chain, Chars(" | ")) :
        b \in VarBases, chain \in SeqsUpTo(FilterSegments, MaxFilters)}

NoResult == [st |-> "none"]
NoInput == [op |-> "none"]
NoFiles == <<>>
IdleParser == [st |-> "idle"]

InitVar ==
    /\ pc = "start"
    /\ \E e \in VarExprs, c \in VarContexts :
          input = [op |-> "var", expr |-> e, context |-> c]
    /\ result = NoResult
    /\ files = NoFiles
    /\ loader = NewLoader
    /\ pstate = IdleParser

\* renderNode on a Variable node.
RenderVar ==
    /\ pc = "start"
    /\ input.op = "var"
    /\ result' = renderNode(VarNode(input.expr, Pos(1, 1, 0)), input.context,
                            Env(loader, <<>>), files, 1)
    /\ pc' = "done"
    /\ UNCHANGED <<input, files, loader, pstate>>

NextVar == RenderVar

SpecVar == InitVar /\ [][NextVar]_vars

\* The entity of one character.
Entity(c) ==
    CASE c = "&" -> Chars("&amp;")
      [] c = "<" -> Chars("&lt;")
      [] c = ">" -> Chars("&gt;")
      [] c = "\"" -> Chars("&quot;")
      [] c = "'" -> Chars("&#39;")
      [] OTHER -> <<c>>

RawMarkup == {"<", ">", "\"", "'"}

\* C1: a Variable node renders to the empty string when the final value of
\* its expression is null or undefined, to the string of a SafeString
\* verbatim, and for every other value to the value's string form with each
\* of & < > " ' replaced by its entity, so that no raw < > " ' of such a
\* value reaches the output.
C1_VariableEscaped ==
    (pc = "done" /\ input.op = "var") =>
        LET val == evalVarExpression(input.expr, input.context) IN
        val.k # "raised" =>
            /\ result.st = "ok"
            /\ IsNullish(val) => result.out = <<>>
            /\ val.k = "safe" => result.out = val.s
            /\ (~IsNullish(val) /\ val.k # "safe" /\ CanString(val)) =>
                  /\ result.out =
                        Flatten([i \in 1..Len(String(val)) |-> Entity(String(val)[i])])
                  /\ \A i \in 1..Len(result.out) : result.out[i] \notin RawMarkup

\* A rendered value that is no SafeString and whose string form holds markup
\* and an ampersand.
C1_Witness ==
    /\ pc = "done" /\ input.op = "var"
    /\ LET val == evalVarExpression(input.expr, input.context) IN
       /\ val.k = "str"
       /\ \E i \in 1..Len(val.s) : val.s[i] = "<"
       /\ \E i \in 1..Len(val.s) : val.s[i] = "&"
       /\ result.st = "ok"
       /\ Len(result.out) > Len(val.s)

(***************************************************************************)
(* Rendering one Conditional node                                          *)
(***************************************************************************)

\* The tests of the branches; NullTest is the else branch.
IfTests ==
    {Test(Chars("x > 10")), Test(Chars("x > 3")), Test(Chars("f()")),
     Test(Chars("y")), Test(Chars("")), NullTest}

\* The most branches of a conditional node.
MaxBranches == 3

BodyLetters == <<"A", "B", "C", "D", "E">>

\* Branch i renders its own letter followed by the value of x.
BodyOf(i) == <<TextNode(<<BodyLetters[i]>>), VarNode(Chars("x"), Pos(1, 1, 0))>>

IfNodes ==
    {IfNode([i \in 1..Len(tests) |-> Branch(tests[i], BodyOf(i))], Pos(1, 1, 0)) :
        tests \in UNION {[1..m -> IfTests] : m \in 1..MaxBranches}}

IfContexts ==
    {Obj(<<Entry(Chars("x"), Num(x)),
           Entry(Chars("f"), Fn(Chars("()=>r"), FALSE, Bool(r)))>>) :
        x \in {2, 5, 11}, r \in BOOLEAN}

InitIf ==
    /\ pc = "start"
    /\ \E n \in IfNodes, c \in IfContexts :
          input = [op |-> "if", node |-> n, context |-> c]
    /\ result = NoResult
    /\ files = NoFiles
    /\ loader = NewLoader
    /\ pstate = IdleParser

\* renderNode on a Conditional node.
RenderIf ==
    /\ pc = "start"
    /\ input.op = "if"
    /\ result' = renderNode(input.node, input.context, Env(loader, <<>>), files, 1)
    /\ pc' = "done"
    /\ UNCHANGED <<input, files, loader, pstate>>

NextIf == RenderIf

SpecIf == InitIf /\ [][NextIf]_vars

\* Whether branch i of the input matches: its test is null or evaluates to true.
Matches(i) ==
    \/ input.node.branches[i].test.null
    \/ evalTestExpression(input.node.branches[i].test.s, input.context) = "true"

\* The tests evaluated when the branches up to the i-th are tried in order.
TestsUpTo(i) ==
    SelectSeq([j \in 1..i |-> [ev |-> "test", what |-> j]],
              LAMBDA e : ~input.node.branches[e.what].test.null)

\* C2: a Conditional node renders to the body of exactly one branch, the first
\* in source order whose test is true or null; only the tests of the branches
\* up to that one are evaluated, in order, and no other body is rendered; when
\* no branch matches every test is evaluated and the output is empty.
C2_FirstMatchingBranch ==
    (pc = "done" /\ input.op = "if") =>
        LET n == Len(input.node.branches)
            hits == {i \in 1..n : Matches(i)}
        IN  /\ result.st = "ok"
            /\ hits = {} =>
                  /\ result.out = <<>>
                  /\ result.env.events = TestsUpTo(n)
            /\ hits # {} =>
                  /\ result.out =
                        renderNodes(input.node.branches[Min(hits)].body, input.context,
                                    Env(loader, <<>>), files, 1).out
                  /\ result.out[1] = BodyLetters[Min(hits)]
                  /\ result.env.events =
                        Append(TestsUpTo(Min(hits)), [ev |-> "body", what |-> Min(hits)])

\* A conditional whose first branch fails, whose second branch is taken and
\* which has a later branch that would match as well.
C2_Witness ==
    /\ pc = "done" /\ input.op = "if"
    /\ Len(input.node.branches) = 3
    /\ ~Matches(1) /\ Matches(2) /\ Matches(3)
    /\ ~input.node.branches[2].test.null
    /\ result.st = "ok"
    /\ result.out[1] = "B"

(***************************************************************************)
(* Rendering templates that extend one another                             *)
(***************************************************************************)

BlockSrc(name, body) ==
    Chars("{% block ") \o name \o Chars(" %}") \o body \o Chars("{% endblock %}")

\* The default body of a block is the letter of its template followed by the
\* first letter of the block's name: ra, mb, lc.
BodyText(letter, name) == <<letter, name[1]>>

\* Where the root template defines its block c.
NestKinds == {"top", "if", "for", "block"}

Nest(kind, src) ==
    CASE kind = "if" -> Chars("{% if x %}") \o src \o Chars("{% endif %}")
      [] kind = "for" -> Chars("{% for i in xs %}") \o src \o Chars("{% endfor %}")
      [] kind = "block" -> Chars("{% block w %}") \o src \o Chars("{% endblock %}")
      [] OTHER -> src

\* The names the root template gives its second block.
SecondNames == {Chars("b"), Chars("toString")}

RootSrc(second, kind) ==
    Chars("R[") \o BlockSrc(Chars("a"), BodyText("r", Chars("a")))
      \o Chars("|") \o BlockSrc(second, BodyText("r", second))
      \o Chars("|") \o Nest(kind, BlockSrc(Chars("c"), BodyText("r", Chars("c"))))
      \o Chars("]")

\* A template that extends parent, with the text outside blocks and the
\* blocks named defs.
ChildSrc(parent, text, letter, defs) ==
    Chars("{% extends \"") \o parent \o Chars("\" %}") \o text
      \o Flatten([i \in 1..Len(defs) |-> BlockSrc(defs[i], BodyText(letter, defs[i]))])

\* The sub-sequences of a sequence of names.
SubSeqs(names) ==
    {SelectSeq(names, LAMBDA x : x \in S) : S \in SUBSET {names[i] : i \in 1..Len(names)}}

MidDefs == SubSeqs(<<Chars("b"), Chars("c")>>)
LeafDefs == SubSeqs(<<Chars("a"), Chars("b"), Chars("c")>>)
OutsideTexts == {<<>>, <<"M">>}

RootPath == Chars("root")
MidPath == Chars("mid")
LeafPath == Chars("leaf")

FileSystems ==
    {(RootPath :> File(RootSrc(second, kind)))
       @@ (MidPath :> File(ChildSrc(RootPath, text, "m", md)))
       @@ (LeafPath :> File(ChildSrc(MidPath, <<"L">>, "l", ld))) :
        second \in SecondNames, kind \in NestKinds, text \in OutsideTexts,
        md \in MidDefs, ld \in LeafDefs}

InheritContexts ==
    {Obj(<<Entry(Chars("x"), Bool(x)), Entry(Chars("xs"), Arr(<<Num(1)>>))>>) :
        x \in BOOLEAN}

InitInherit ==
    /\ pc = "start"
    /\ files \in FileSystems
    /\ \E p \in {RootPath, MidPath, LeafPath}, c \in InheritContexts :
          input = [op |-> "render", path |-> p, context |-> c]
    /\ result = NoResult
    /\ loader = NewLoader
    /\ pstate = IdleParser

\* renderTemplate(path, context) on the module's loader.
RenderTemplate ==
    /\ pc = "start"
    /\ input.op = "render"
    /\ result' = renderTemplate(input.path, input.context, loader, files)
    /\ loader' = result'.env.loader
    /\ pc' = "done"
    /\ UNCHANGED <<input, files, pstate>>

NextInherit == RenderTemplate

SpecInherit == InitInherit /\ [][NextInherit]_vars

\* The tree load gives for a path of the file system.
AstOf(path) == parse(lex(FileAt(files, path).src)).out

HasTopBlock(nodes, name) ==
    \E i \in 1..Len(nodes) : nodes[i].type = "block" /\ nodes[i].name = name

\* The body of the last top-level block of that name.
TopBlockBody(nodes, name) ==
    nodes[Max({i \in 1..Len(nodes) :
                  nodes[i].type = "block" /\ nodes[i].name = name})].body

\* What the nodes render to, alone, in the context of the input.
Rendered(nodes) ==
    renderNodes(nodes, input.context, Env(NewLoader, <<>>), files, 1).out

Contains(s, p) ==
    \E i \in 1..(Len(s) - Len(p) + 1) : SubSeq(s, i, i + Len(p) - 1) = p

\* The parent's top-level nodes in order, each block taken from the first of
\* the descendants (nearest to the leaf first) that defines it at its top level.
Composed(parentNodes, descendants) ==
    Flatten([i \in 1..Len(parentNodes) |->
        LET n == parentNodes[i]
            def == {d \in 1..Len(descendants) : HasTopBlock(descendants[d], n.name)}
        IN  IF n.type # "block" THEN Rendered(<<n>>)
            ELSE IF def = {} THEN Rendered(n.body)
            ELSE Rendered(TopBlockBody(descendants[Min(def)], n.name))])

\* C3: rendering a child that extends a parent without an extends of its own
\* gives the parent's top-level nodes in order, each top-level block taken
\* from the child's top-level block of that name when the child has one and
\* from the parent's default body when it has none.
C3_ChildOverridesParent ==
    (pc = "done" /\ input.op = "render" /\ input.path = MidPath) =>
        /\ result.st = "ok"
        /\ result.out = Composed(AstOf(RootPath), <<AstOf(MidPath)>>)

\* C3 for the parents whose block names are no members of Object.prototype.
C3_OrdinaryNames ==
    (/\ pc = "done" /\ input.op = "render" /\ input.path = MidPath
     /\ \A i \in 1..Len(AstOf(RootPath)) :
           AstOf(RootPath)[i].type = "block" =>
               AstOf(RootPath)[i].name \notin ObjectProtoNames) =>
        /\ result.st = "ok"
        /\ result.out = Composed(AstOf(RootPath), <<AstOf(MidPath)>>)

\* C4: in a chain leaf -> mid -> root the text at each block position of the
\* root is the leaf's body when the leaf defines the block, else the mid
\* template's body when it defines the block, else the root's default.
C4_ChainPrecedence ==
    (pc = "done" /\ input.op = "render" /\ input.path = LeafPath
       /\ result.st = "ok") =>
        Contains(result.out,
                 Composed(AstOf(RootPath), <<AstOf(LeafPath), AstOf(MidPath)>>))

\* C5: the text a template with an extends node has outside its blocks, be it
\* the leaf or a mid-chain parent, never reaches the output.
C5_OutsideBlocksSilent ==
    (pc = "done" /\ input.op = "render" /\ input.path \in {MidPath, LeafPath}
       /\ result.st = "ok") =>
        /\ ~Contains(result.out, <<"M">>)
        /\ ~Contains(result.out, <<"L">>)

\* C5 for the template passed to renderTemplate.
C5_LeafOutsideBlocksSilent ==
    (pc = "done" /\ input.op = "render" /\ result.st = "ok") =>
        /\ input.path = MidPath => ~Contains(result.out, <<"M">>)
        /\ input.path = LeafPath => ~Contains(result.out, <<"L">>)

\* Whether the root's block c is rendered at all: always at the top level, in
\* a block and in a loop over the one-element xs, and under {% if x %} when x.
ReachesC ==
    \A i \in 1..Len(AstOf(RootPath)) :
        AstOf(RootPath)[i].type = "if" => Truthy(ObjGet(input.context, Chars("x")))

\* C6: a block the parent defines, at its top level or nested in a block, a
\* conditional branch or a loop, is rendered from the descendant's block of
\* that name when the descendant has one.
C6_NestedBlockOverridden ==
    (pc = "done" /\ input.op = "render" /\ input.path = MidPath
       /\ result.st = "ok" /\ HasTopBlock(AstOf(MidPath), Chars("c")) /\ ReachesC) =>
        /\ Contains(result.out, BodyText("m", Chars("c")))
        /\ ~Contains(result.out, BodyText("r", Chars("c")))

\* C6 for the blocks at the top level of the parent.
C6_TopLevelBlockOverridden ==
    (pc = "done" /\ input.op = "render" /\ input.path = MidPath
       /\ result.st = "ok" /\ HasTopBlock(AstOf(MidPath), Chars("c"))
       /\ HasTopBlock(AstOf(RootPath), Chars("c"))) =>
        /\ Contains(result.out, BodyText("m", Chars("c")))
        /\ ~Contains(result.out, BodyText("r", Chars("c")))

(***************************************************************************)
(* One TemplateLoader over a directory whose files change                  *)
(***************************************************************************)

PathA == Chars("a")
PathB == Chars("b")
StorePaths == {PathA, PathB}

\* What a file of the directory holds: nothing (no such file), text, a
\* template that includes b, or a template with an unclosed tag.
SourcesOf(path) ==
    IF path = PathA
    THEN {NoFile, File(Chars("1")), File(Chars("{% include 'b' %}2")),
          File(Chars("{% if x %}"))}
    ELSE {NoFile, File(Chars("3")), File(Chars("{% extends \"a\" %}"))}

Directories == {fs \in [StorePaths -> UNION {SourcesOf(p) : p \in StorePaths}] :
                   \A p \in StorePaths : fs[p] \in SourcesOf(p)}

\* The most reads of one path.
MaxReads == 2

MayLoad(path) ==
    path \in DOMAIN loader.cache \/ CountOf(loader.reads, path) < MaxReads

InitStore ==
    /\ pc = "ready"
    /\ files \in Directories
    /\ input = NoInput
    /\ result = NoResult
    /\ loader = NewLoader
    /\ pstate = IdleParser

\* What the caller of load holds afterwards, and the loader.
Returned(ld) ==
    /\ result' = [st |-> ld.st, tpl |-> ld.tpl]
    /\ loader' = ld.L

\* loader.load(path), called directly.
Load(path) ==
    /\ pc = "ready"
    /\ MayLoad(path)
    /\ input' = [op |-> "load", path |-> path]
    /\ Returned(load(loader, path, files))
    /\ UNCHANGED <<pc, files, pstate>>

\* What the caller of renderTemplate holds afterwards, and the loader.
RenderedTo(r) ==
    /\ result' = [st |-> r.st, out |-> r.out]
    /\ loader' = r.env.loader

\* renderTemplate(path, {}): its loads are the one of path and those of the
\* include and extends nodes met.
Render(path) ==
    /\ pc = "ready"
    /\ \A q \in StorePaths : MayLoad(q)
    /\ input' = [op |-> "render", path |-> path]
    /\ RenderedTo(renderTemplate(path, Obj(<<>>), loader, files))
    /\ UNCHANGED <<pc, files, pstate>>

\* The file at path is written, created or removed.
WriteFile(path, f) ==
    /\ pc = "ready"
    /\ files[path] # f
    /\ files' = [files EXCEPT ![path] = f]
    /\ input' = [op |-> "write", path |-> path]
    /\ result' = NoResult
    /\ UNCHANGED <<pc, loader, pstate>>

NextStore ==
    \/ \E p \in StorePaths : Load(p)
    \/ \E p \in StorePaths : Render(p)
    \/ \E p \in StorePaths : \E f \in SourcesOf(p) : WriteFile(p, f)

SpecStore == InitStore /\ [][NextStore]_vars

\* C7 as stated: every successfully loaded path has been read and parsed
\* exactly once.
C7_ReadAndParsedOnce ==
    \A p \in StorePaths :
        ServedOf(loader, p) # {} =>
            /\ CountOf(loader.reads, p) = 1
            /\ CountOf(loader.parses, p) = 1

\* C7: from the first successful load of a path on, every load of that path,
\* direct or made for an include or extends, returns the one instance of that
\* first load and performs no read and no lex/parse, whatever the file holds
\* by then; the reads and parses of the path are those of the loads that
\* failed before, and one more.
C7_CachedAfterFirstSuccess ==
    /\ [](\A p \in StorePaths : Cardinality(ServedOf(loader, p)) <= 1)
    /\ [][\A p \in StorePaths :
             ServedOf(loader, p) # {} =>
                 /\ ServedOf(loader', p) = ServedOf(loader, p)
                 /\ CountOf(loader'.reads, p) = CountOf(loader.reads, p)
                 /\ CountOf(loader'.parses, p) = CountOf(loader.parses, p)
                 /\ (input'.op = "load" /\ input'.path = p) =>
                       /\ result'.st = "ok"
                       /\ {result'.tpl} = ServedOf(loader, p)]_vars

\* A load that succeeds on a path loaded before, after the file was changed:
\* it returns the source read the first time.
C7_Witness ==
    /\ input = [op |-> "load", path |-> PathA]
    /\ result.st = "ok"
    /\ files[PathA].exists
    /\ result.tpl.src # files[PathA].src
    /\ CountOf(loader.reads, PathA) = 1
    /\ CountOf(loader.parses, PathA) = 1

(***************************************************************************)
(* Parsing a template tag by tag                                           *)
(***************************************************************************)

\* The pieces a template is put together from; each ends with a tag.
Snippets ==
    {Chars("{% if x %}"), Chars("\n{% if x > 1 %}"), Chars("{% elif y %}"),
     Chars("{% else %}"), Chars("{% endif %}"),
     Chars("{% for i in xs %}"), Chars("t\n {% for k, v in m %}"), Chars("{% endfor %}"),
     Chars("{% block b %}"), Chars("{{ v }}{% block c %}"), Chars("{% endblock %}")}

\* The most pieces of a template.
MaxSnippets == 4

\* The loop of parse over the tokens from the i-th on, without the check
\* after the loop.
RECURSIVE ParseTokens(_, _, _)
ParseTokens(ps, tokens, i) ==
    IF ps.st = "error" \/ i > Len(tokens) THEN ps
    ELSE ParseTokens(ParseToken(ps, tokens[i]), tokens, i + 1)

InitParse ==
    /\ pc = "feeding"
    /\ input = [op |-> "parse", src |-> <<>>, tokens |-> <<>>, fed |-> 0]
    /\ pstate = PState(<<>>, <<>>)
    /\ result = NoResult
    /\ files = NoFiles
    /\ loader = NewLoader

\* lex gave the tokens of the template with one more piece; the piece's
\* tokens go through the loop of parse.
Fed(src, tokens) ==
    /\ input' = [input EXCEPT !.src = src, !.tokens = tokens, !.fed = @ + 1]
    /\ pstate' = ParseTokens(pstate, tokens, Len(input.tokens) + 1)

Feed(sn) ==
    /\ pc = "feeding"
    /\ pstate.st = "run"
    /\ input.fed < MaxSnippets
    /\ Fed(input.src \o sn, lex(input.src \o sn))
    /\ UNCHANGED <<pc, result, files, loader>>

\* The tokens are exhausted.
EndOfTokens ==
    /\ pc = "feeding"
    /\ pstate.st = "run"
    /\ pstate' = ParseEnd(pstate)
    /\ pc' = "ended"
    /\ UNCHANGED <<input, result, files, loader>>

NextParse ==
    \/ \E sn \in Snippets : Feed(sn)
    \/ EndOfTokens

SpecParse == InitParse /\ [][NextParse]_vars

\* The steps make up parse(lex(src)).
ParseIsStepwise ==
    /\ pstate.st = "error" => parse(lex(input.src)) = pstate
    /\ pc = "ended" => parse(lex(input.src)) = pstate

Openers == {Chars("if"), Chars("for"), Chars("block")}
Closers == {Chars("endif"), Chars("endfor"), Chars("endblock")}
Continuers == {Chars("elif"), Chars("else")}

\* The opening tag a closing or continuing tag belongs to.
OpenerOf(tag) ==
    CASE tag = Chars("endfor") -> Chars("for")
      [] tag = Chars("endblock") -> Chars("block")
      [] OTHER -> Chars("if")

IsTag(t, tags) == t.type = "tag" /\ TagOf(t) \in tags

\* The indices of the opening tags still open after well-nested tokens,
\* innermost last.
RECURSIVE OpenTags(_, _, _)
OpenTags(tokens, i, open) ==
    IF i > Len(tokens) THEN open
    ELSE OpenTags(tokens, i + 1,
                  IF IsTag(tokens[i], Openers) THEN Append(open, i)
                  ELSE IF IsTag(tokens[i], Closers) /\ Len(open) > 0
                  THEN SubSeq(open, 1, Len(open) - 1)
                  ELSE open)

\* line:col of the character at 0-based index in src.
LineColText(src, index) ==
    LET breaks == {j \in 1..index : src[j] = "\n"}
    IN  NatStr(1 + Cardinality(breaks)) \o <<":">>
          \o NatStr(index - Max(breaks \cup {0}) + 1)

\* C8: when the tokens are exhausted without an earlier error and a frame is
\* still open, parse fails with Unclosed tag and the line:column of the
\* opening tag of the innermost open frame, and returns no tree; with no
\* frame open it returns the tree.
C8_UnclosedAtInnermost ==
    [][(pc = "feeding" /\ pc' = "ended") =>
          LET open == OpenTags(input.tokens, 1, <<>>) IN
          IF open = <<>> THEN pstate'.st = "done"
          ELSE /\ pstate'.st = "error"
               /\ StartsWithAt(input.src, input.tokens[open[Len(open)]].pos.index + 1,
                               Chars("{%"))
               /\ pstate'.error =
                     Chars("Unclosed tag at ")
                       \o LineColText(input.src, input.tokens[open[Len(open)]].pos.index)]_vars

\* Two frames open at the end, the inner one on a later line than the outer.
C8_Witness ==
    /\ pc = "ended"
    /\ pstate.st = "error"
    /\ Len(pstate.stack) >= 2
    /\ pstate.stack[Len(pstate.stack)].tokenPos.line > pstate.stack[1].tokenPos.line
    /\ pstate.error = ErrorAt(Chars("Unclosed tag"),
                              pstate.stack[Len(pstate.stack)].tokenPos)

\* The last token fed, a tag.
LastTag(tokens) == tokens[Len(tokens)]

\* C9: an elif, else or endif met with no conditional frame on top, an endfor
\* with no loop frame on top and an endblock with no block frame on top make
\* parse fail at once with Unexpected <tag> and that token's line:column; a
\* closing tag that is accepted closes the innermost open frame and leaves the
\* frames below it open.
C9_UnexpectedAtToken ==
    [][(pc = "feeding" /\ pc' = "feeding" /\ input'.fed = input.fed + 1
          /\ IsTag(LastTag(input'.tokens), Closers \cup Continuers)) =>
          LET t == LastTag(input'.tokens)
              open == OpenTags(input.tokens, 1, <<>>)
              fits == /\ open # <<>>
                      /\ TagOf(input.tokens[open[Len(open)]]) = OpenerOf(TagOf(t))
          IN  /\ ~fits =>
                    /\ pstate'.st = "error"
                    /\ pstate'.error =
                          Chars("Unexpected ") \o TagOf(t) \o Chars(" at ")
                            \o LineColText(input'.src, t.pos.index)
              /\ fits =>
                    /\ pstate'.st = "run"
                    /\ Len(pstate'.stack) =
                          IF TagOf(t) \in Closers THEN Len(open) - 1 ELSE Len(open)
                    /\ \A d \in 1..(Len(open) - 1) :
                          /\ pstate'.stack[d].type = pstate.stack[d].type
                          /\ pstate'.stack[d].tokenPos = input.tokens[open[d]].pos]_vars

\* An endfor met with a conditional frame on top of a loop frame.
C9_Witness ==
    /\ pc = "feeding"
    /\ pstate.st = "error"
    /\ Len(input.tokens) >= 3
    /\ TagOf(LastTag(input.tokens)) = Chars("endfor")
    /\ Len(OpenTags(input.tokens, 1, <<>>)) = 1
    /\ pstate.error = ErrorAt(Chars("Unexpected endfor"), LastTag(input.tokens).pos)

(***************************************************************************)
(* Rendering one Loop node                                                 *)
(***************************************************************************)

\* The elements of the sequences iterated.
LoopElements ==
    {Num(1), Str(Chars("a")), Null, Arr(<<Num(7), Num(8)>>), Arr(<<Num(9)>>)}

\* The keys of the mappings iterated.
LoopKeys == {Chars("a"), Chars("b"), Chars("1"), Chars("10")}

\* The most elements of a sequence and entries of a mapping.
MaxItems == 2

LoopSequences == {Arr(items) : items \in SeqsUpTo(LoopElements, MaxItems)}

\* The mappings, their entries in the order of insertion; the i-th entry
\* inserted has the value i.
LoopMappings ==
    {Obj([i \in 1..Len(keys) |-> Entry(keys[i], Num(i))]) :
        keys \in {ks \in SeqsUpTo(LoopKeys, MaxItems) :
                     \A i, j \in 1..Len(ks) : i # j => ks[i] # ks[j]}}

LoopContexts2 ==
    {Obj(<<Entry(Chars("items"), a), Entry(Chars("pairs"), o)>>) :
        a \in LoopSequences, o \in LoopMappings}

\* {{ v }}; and {{ k }}={{ v }};
BodyOne == <<VarNode(Chars("v"), Pos(1, 1, 0)), TextNode(<<";">>)>>
BodyTwo ==
    <<VarNode(Chars("k"), Pos(1, 1, 0)), TextNode(<<"=">>),
      VarNode(Chars("v"), Pos(1, 1, 0)), TextNode(<<";">>)>>

ForNodes ==
    {ForNode(<<Chars("v")>>, it, BodyOne, Pos(1, 1, 0)) :
        it \in {Chars("items"), Chars("pairs"), Chars("nope")}}
    \cup
    {ForNode(<<Chars("k"), Chars("v")>>, it, BodyTwo, Pos(1, 1, 0)) :
        it \in {Chars("items"), Chars("pairs"), Chars("nope")}}

InitLoop ==
    /\ pc = "start"
    /\ \E n \in ForNodes, c \in LoopContexts2 :
          input = [op |-> "for", node |-> n, context |-> c]
    /\ result = NoResult
    /\ files = NoFiles
    /\ loader = NewLoader
    /\ pstate = IdleParser

\* renderNode on a Loop node.
RenderFor ==
    /\ pc = "start"
    /\ input.op = "for"
    /\ result' = renderNode(input.node, input.context, Env(loader, <<>>), files, 1)
    /\ pc' = "done"
    /\ UNCHANGED <<input, files, loader, pstate>>

NextLoop == RenderFor

SpecLoop == InitLoop /\ [][NextLoop]_vars

\* What one iteration renders with k and v bound.
Piece(names, k, v) ==
    IF Len(names) = 1 THEN RenderValue(v) \o <<";">>
    ELSE RenderValue(k) \o <<"=">> \o RenderValue(v) \o <<";">>

\* Position j (from 0) of an element: null when the element is no sequence or
\* has no such position.
PositionOf(it, j) ==
    IF it.k = "arr" /\ j < Len(it.items) THEN it.items[j + 1] ELSE Null

\* The iterations of the loop of the input over the value iterated, a mapping
\* taken in the order its entries were inserted.
ExpectedLoop(iterated) ==
    LET names == input.node.varNames IN
    IF iterated.k = "arr"
    THEN Flatten([i \in 1..Len(iterated.items) |->
             IF Len(names) = 1 THEN Piece(names, Null, iterated.items[i])
             ELSE Piece(names, PositionOf(iterated.items[i], 0),
                        PositionOf(iterated.items[i], 1))])
    ELSE IF iterated.k = "obj"
    THEN Flatten([i \in 1..Len(iterated.e) |->
             Piece(names, Str(iterated.e[i].key), iterated.e[i].val)])
    ELSE <<>>

\* C10: a loop renders its body once per element of a sequence in element
\* order, once per entry of a mapping in insertion order, and concatenates in
\* that order; one name is bound to the element or the value, two names to
\* key and value of a mapping and to positions 0 and 1 of an element, null
\* where the element has none.
C10_LoopOrderAndBinding ==
    (pc = "done" /\ input.op = "for") =>
        /\ result.st = "ok"
        /\ result.out = ExpectedLoop(ObjGet(input.context, input.node.iterableExpr))

\* C10 for the sequences, and for the mappings without a key that is a
\* canonical array index.
C10_SequencesAndPlainKeys ==
    (/\ pc = "done" /\ input.op = "for"
     /\ LET it == ObjGet(input.context, input.node.iterableExpr) IN
        it.k = "obj" => \A i \in 1..Len(it.e) : ~IsIndexKey(it.e[i].key)) =>
        /\ result.st = "ok"
        /\ result.out = ExpectedLoop(ObjGet(input.context, input.node.iterableExpr))

(***************************************************************************)
(* Loop variables and the caller's context                                 *)
(***************************************************************************)

ScopePath == Chars("scope")

\* A loop over items with an inner loop over inner that binds v again; the
\* names of the outer loop are read before, inside and after both loops.
ScopeSrcOne ==
    Chars("{{ v }}|{% for v in items %}{{ v }}{% for v in inner %}{{ v }}{% endfor %}{{ v }},{% endfor %}|{{ v }}")
ScopeSrcTwo ==
    Chars("{{ k }}{{ v }}|{% for k, v in items %}{{ k }}={{ v }}{% for v in inner %}{{ v }}{% endfor %}{{ k }}={{ v }},{% endfor %}|{{ k }}{{ v }}")

ScopeOuterV == {Undef, Str(Chars("o")), Num(0)}
ScopeOuterK == {Undef, Str(Chars("K"))}
ScopeItems ==
    {Arr(items) :
        items \in SeqsUpTo({Num(1), Str(Chars("a")), Arr(<<Num(7), Num(8)>>)}, MaxItems)}
    \cup {Obj(<<Entry(Chars("a"), Num(1))>>),
          Obj(<<Entry(Chars("b"), Num(2)), Entry(Chars("a"), Num(1))>>)}
ScopeInner == {Arr(items) : items \in SeqsUpTo({Num(5), Str(Chars("z"))}, MaxItems)}

\* The caller's context: v and k are absent when their value is undefined.
ScopeContext(v, k, items, inner) ==
    Obj((IF v = Undef THEN <<>> ELSE <<Entry(Chars("v"), v)>>)
        \o <<Entry(Chars("items"), items)>>
        \o (IF k = Undef THEN <<>> ELSE <<Entry(Chars("k"), k)>>)
        \o <<Entry(Chars("inner"), inner)>>)

ScopeContexts ==
    {ScopeContext(v, k, items, inner) :
        v \in ScopeOuterV, k \in ScopeOuterK, items \in ScopeItems,
        inner \in ScopeInner}

InitScope ==
    /\ pc = "start"
    /\ \E src \in {ScopeSrcOne, ScopeSrcTwo} : files = (ScopePath :> File(src))
    /\ \E c \in ScopeContexts :
          input = [op |-> "render", path |-> ScopePath, context |-> c]
    /\ result = NoResult
    /\ loader = NewLoader
    /\ pstate = IdleParser

NextScope == RenderTemplate

SpecScope == InitScope /\ [][NextScope]_vars

ScopeTwoNames == files[ScopePath].src = ScopeSrcTwo

\* What the names of the outer loop render as, given their values.
ScopeHead(k, v) ==
    IF ScopeTwoNames THEN RenderValue(k) \o <<"=">> \o RenderValue(v)
    ELSE RenderValue(v)

\* One iteration of the outer loop with k and v bound: the names, the inner
\* loop with its own v, the names again.
ScopeIteration(k, v) ==
    LET inner == ObjGet(input.context, Chars("inner")).items IN
    ScopeHead(k, v)
      \o Flatten([j \in 1..Len(inner) |-> RenderValue(inner[j])])
      \o ScopeHead(k, v) \o <<",">>

\* What the names render as outside the loops: their values in the caller's
\* context.
ScopeOutside ==
    (IF ScopeTwoNames THEN RenderValue(ObjGet(input.context, Chars("k"))) ELSE <<>>)
      \o RenderValue(ObjGet(input.context, Chars("v")))

ExpectedScope ==
    LET items == ObjGet(input.context, Chars("items")) IN
    ScopeOutside \o <<"|">>
      \o (IF items.k = "arr"
          THEN Flatten([i \in 1..Len(items.items) |->
                  IF ScopeTwoNames
                  THEN ScopeIteration(PositionOf(items.items[i], 0),
                                      PositionOf(items.items[i], 1))
                  ELSE ScopeIteration(Null, items.items[i])])
          ELSE Flatten([i \in 1..Len(items.e) |->
                  ScopeIteration(Str(items.e[i].key), items.e[i].val)]))
      \o <<"|">> \o ScopeOutside

\* C11: a render leaves the caller's context as it was, and a loop's names are
\* bound only inside its body: before and after the loop a name the loop
\* binds renders its value in the caller's context, and after an inner loop
\* that binds the same name the rest of the outer body renders the outer
\* loop's binding.
C11_LoopBindingsScoped ==
    (pc = "done" /\ input.path = ScopePath) =>
        /\ result.st = "ok"
        /\ result.out = ExpectedScope
        /\ input.context \in ScopeContexts

\* A name bound in the caller's context, by the outer loop and by the inner
\* loop, each loop with an iteration.
C11_Witness ==
    /\ pc = "done" /\ input.path = ScopePath
    /\ result.st = "ok"
    /\ HasOwn(input.context, Chars("v"))
    /\ ObjGet(input.context, Chars("items")) = Arr(<<Num(1), Str(Chars("a"))>>)
    /\ ObjGet(input.context, Chars("inner")) = Arr(<<Str(Chars("z"))>>)
    /\ result.out = Chars("o|1z1,aza,|o")

(***************************************************************************)
(* Evaluating expressions that cannot be resolved                          *)
(***************************************************************************)

\* The contexts: one with a value of every kind, and the empty one.
EvalContexts ==
    {Obj(<<Entry(Chars("u"), Str(Chars("hi"))),
           Entry(Chars("n"), Null),
           Entry(Chars("o"), Obj(<<Entry(Chars("a"), Num(1))>>)),
           Entry(Chars("arr"), Arr(<<Str(Chars("x"))>>)),
           Entry(Chars("f"), Fn(Chars("() => r"), FALSE,
                                Obj(<<Entry(Chars("a"), Str(Chars("r")))>>))),
           Entry(Chars("g"), Fn(Chars("() => { throw 1 }"), TRUE, Undef))>>),
     Obj(<<>>)}

\* The first names of the expressions.
EvalBases ==
    {Chars("missing"), Chars("u"), Chars("n"), Chars("o"), Chars("arr"),
     Chars("f"), Chars("g"), Chars("toString")}

\* The steps after the first name: their text, and for an index step the
\* expression between the brackets.
EvalStep(kind, text, inner) == [kind |-> kind, text |-> Chars(text), inner |-> Chars(inner)]
EvalSteps ==
    {EvalStep("prop", ".a", ""), EvalStep("prop", ".toString", ""),
     EvalStep("index", "[0]", "0"), EvalStep("index", "['a']", "'a'"),
     EvalStep("index", "[o]", "o"), EvalStep("call", "()", "")}

\* The most steps of an expression.
MaxSteps == 2

\* The text of the first name and the first n steps.
ExprText(base, steps, n) == base \o Flatten([i \in 1..n |-> steps[i].text])

InitEval ==
    /\ pc = "start"
    /\ \E op \in {"evalvar", "evalfor"}, b \in EvalBases,
          st \in SeqsUpTo(EvalSteps, MaxSteps), c \in EvalContexts :
          input = [op |-> op, base |-> b, steps |-> st,
                   expr |-> ExprText(b, st, Len(st)), context |-> c]
    /\ result = NoResult
    /\ files = NoFiles
    /\ loader = NewLoader
    /\ pstate = IdleParser

\* What a render gave, and the value of the expression rendered.
Evaluated(r, val) == [st |-> r.st, out |-> r.out, val |-> val]

\* renderNodes on A{{ expr }}B.
EvalVar ==
    /\ pc = "start"
    /\ input.op = "evalvar"
    /\ result' = Evaluated(
          renderNodes(<<TextNode(<<"A">>), VarNode(input.expr, Pos(1, 2, 1)),
                        TextNode(<<"B">>)>>,
                      input.context, Env(loader, <<>>), files, 1),
          getValueFromExpr(input.expr, input.context))
    /\ pc' = "done"
    /\ UNCHANGED <<input, files, loader, pstate>>

\* renderNodes on A{% for v in expr %}x{% endfor %}B.
EvalFor ==
    /\ pc = "start"
    /\ input.op = "evalfor"
    /\ result' = Evaluated(
          renderNodes(<<TextNode(<<"A">>),
                        ForNode(<<Chars("v")>>, input.expr, <<TextNode(<<"x">>)>>,
                                Pos(1, 2, 1)),
                        TextNode(<<"B">>)>>,
                      input.context, Env(loader, <<>>), files, 1),
          getValueFromExpr(input.expr, input.context))
    /\ pc' = "done"
    /\ UNCHANGED <<input, files, loader, pstate>>

NextEval == EvalVar \/ EvalFor

SpecEval == InitEval /\ [][NextEval]_vars

\* The value the evaluator gives for the first name and the first n steps.
ValueBefore(n) ==
    getValueFromExpr(ExprText(input.base, input.steps, n), input.context)

\* Step i of the expression is one that cannot be taken: a property or index
\* step on a null, missing or non-object value, an index whose inner
\* expression is neither string nor number, a call of a non-callable or of a
\* callable that throws.
StepFails(i) ==
    LET cur == ValueBefore(i - 1)
        step == input.steps[i]
    IN  \/ step.kind \in {"prop", "index"} /\ (IsNullish(cur) \/ ~IsObjectLike(cur))
        \/ /\ step.kind = "index"
           /\ getValueFromExpr(step.inner, input.context).k \notin {"str", "num"}
        \/ step.kind = "call" /\ (cur.k # "fn" \/ cur.throws)

\* The expression of the input cannot be resolved in its context.
Unresolvable ==
    \/ ~HasOwn(input.context, input.base)
    \/ \E i \in 1..Len(input.steps) : StepFails(i)

\* C12: evaluation never raises; an expression with a missing first name or
\* with a step that cannot be taken yields undefined and renders as the empty
\* string, a loop over a value that is neither sequence nor mapping renders
\* no iteration, and the text around is output unchanged.
C12_UnresolvableYieldsUndefined ==
    (pc = "done" /\ input.op \in {"evalvar", "evalfor"}) =>
        /\ result.st = "ok"
        /\ Unresolvable => (result.val = Undef /\ result.out = <<"A", "B">>)
        /\ (input.op = "evalfor" /\ ~IsObjectLike(result.val)) =>
              result.out = <<"A", "B">>

\* C12 for the first names that no plain object inherits from Object.prototype.
C12_NamesNotInherited ==
    (pc = "done" /\ input.op \in {"evalvar", "evalfor"}
       /\ input.base \notin ObjectProtoNames) =>
        /\ result.st = "ok"
        /\ Unresolvable => (result.val = Undef /\ result.out = <<"A", "B">>)
        /\ (input.op = "evalfor" /\ ~IsObjectLike(result.val)) =>
              result.out = <<"A", "B">>

(***************************************************************************)
(* Filter chains                                                           *)
(***************************************************************************)

\* The first segment and the filter segments the expression of the input was
\* made of.
ChainOf(expr) ==
    CHOOSE bc \in VarBases \X SeqsUpTo(FilterSegments, MaxFilters) :
        JoinWith(<<bc[1]>> \o bc[2], Chars(" | ")) = expr

\* One registered filter, by the name and the argument text of its segment.
Registered(seg, val, context) ==
    CASE seg = Chars("upper") -> filter_upper(val)
      [] seg = Chars("safe") -> filter_safe(val)
      [] seg = Chars("escapejs") -> filter_escapejs(val)
      [] seg = Chars("raw_json") -> filter_raw_json(val)
      [] seg = Chars("json_script:v") ->
           filter_json_script(val, getValueFromExpr(Chars("v"), context))
      [] OTHER -> val

\* fn(...f2(f1(val))): the segments from the i-th on applied in order, a
\* segment that names no registered filter leaving the value as it is.
RECURSIVE LeftToRight(_, _, _, _)
LeftToRight(val, chain, i, context) ==
    IF i > Len(chain) \/ val.k = "raised" THEN val
    ELSE LeftToRight(Registered(chain[i], val, context), chain, i + 1, context)

ExpectedFiltered ==
    LeftToRight(getValueFromExpr(ChainOf(input.expr)[1], input.context),
                ChainOf(input.expr)[2], 1, input.context)

\* C13: the value of e | f1 | ... | fn is fn(...f2(f1(value of e))), the
\* filters applied left to right; a segment whose name is no registered
\* filter leaves the value unchanged and does not raise.
C13_FiltersLeftToRight ==
    (pc = "done" /\ input.op = "var") =>
        /\ evalVarExpression(input.expr, input.context) = ExpectedFiltered
        /\ result = VarResult(ExpectedFiltered, Env(loader, <<>>))

\* C13 for the chains whose names are not inherited from Object.prototype by
\* the filters registry.
C13_NamesNotInherited ==
    (/\ pc = "done" /\ input.op = "var"
     /\ \A i \in 1..Len(ChainOf(input.expr)[2]) :
           ChainOf(input.expr)[2][i] \notin ObjectProtoNames) =>
        /\ evalVarExpression(input.expr, input.context) = ExpectedFiltered
        /\ result = VarResult(ExpectedFiltered, Env(loader, <<>>))

(***************************************************************************)
(* The branches of a parsed Conditional                                    *)
(***************************************************************************)

\* In every if node of the tree, at any depth, a branch with a null test is
\* the last branch.
RECURSIVE ElseIsLast(_)
ElseIsLast(nodes) ==
    \A i \in 1..Len(nodes) :
        CASE nodes[i].type = "if" ->
               \A b \in 1..Len(nodes[i].branches) :
                   /\ nodes[i].branches[b].test.null => b = Len(nodes[i].branches)
                   /\ ElseIsLast(nodes[i].branches[b].body)
          [] nodes[i].type \in {"for", "block"} -> ElseIsLast(nodes[i].body)
          [] OTHER -> TRUE

\* C14: in a tree parse returns without error, every Conditional has at most
\* one branch with a null test, and that branch is its last: no elif and no
\* second else follows an else.
C14_ElseOnceAndLast ==
    (pc = "ended" /\ pstate.st = "done") => ElseIsLast(pstate.out)

\* The trees parse returns for the templates without a tag after an else
\* other than endif do satisfy C14: a Conditional closed right after its else.
C14_ElseThenEndif ==
    (/\ pc = "ended" /\ pstate.st = "done"
     /\ \A i \in 1..(Len(input.tokens) - 1) :
           IsTag(input.tokens[i], {Chars("else")}) =>
               \E j \in (i + 1)..Len(input.tokens) :
                   /\ IsTag(input.tokens[j], {Chars("endif")})
                   /\ \A m \in (i + 1)..(j - 1) : input.tokens[m].type # "tag") =>
        ElseIsLast(pstate.out)

(***************************************************************************)
(* The binding names of a for tag                                          *)
(***************************************************************************)

\* The texts between the commas of the names part of a for tag.
NamePieces == {Chars("a"), Chars("b"), Chars("1x"), Chars("a.b"), <<>>}

\* The most texts in a names part.
MaxNames == 3

\* {% for <names> in xs %}x{% endfor %}
ForTagSrc(pieces, sep) ==
    Chars("{% for ") \o JoinWith(pieces, sep) \o Chars(" in xs %}x{% endfor %}")

InitForTag ==
    /\ pc = "start"
    /\ \E pieces \in SeqsUpTo(NamePieces, MaxNames), sep \in {Chars(","), Chars(", ")} :
          input = [op |-> "fortag", pieces |-> pieces, src |-> ForTagSrc(pieces, sep)]
    /\ pstate = IdleParser
    /\ result = NoResult
    /\ files = NoFiles
    /\ loader = NewLoader

\* parse(lex(src)) on a template of one loop.
ParseForTag ==
    /\ pc = "start"
    /\ input.op = "fortag"
    /\ pstate' = parse(lex(input.src))
    /\ pc' = "done"
    /\ UNCHANGED <<input, result, files, loader>>

NextForTag == ParseForTag

SpecForTag == InitForTag /\ [][NextForTag]_vars

\* The names a names part yields: its texts that are not empty.
NamesYielded == SelectSeq(input.pieces, LAMBDA x : Len(x) > 0)

IsIdentifier(x) == Len(x) > 0 /\ MatchIdent(x, 1) = Len(x)

\* One or two names, each an identifier.
NamesWellFormed ==
    /\ Len(NamesYielded) \in {1, 2}
    /\ \A i \in 1..Len(NamesYielded) : IsIdentifier(NamesYielded[i])

\* The tree holds one Loop node, with the names yielded.
LoopParsed ==
    /\ pstate.st = "done"
    /\ Len(pstate.out) = 1
    /\ pstate.out[1].type = "for"
    /\ pstate.out[1].varNames = NamesYielded

\* C15: a for tag whose names part yields one or two identifiers parses to a
\* Loop node with these names; one that yields no name, more than two names
\* or a name that is no identifier makes parse fail with an error, and no
\* Loop node is produced.
C15_LoopNamesValidated ==
    (pc = "done" /\ input.op = "fortag") =>
        IF NamesWellFormed THEN LoopParsed ELSE pstate.st = "error"

\* C15 for the well-formed names parts alone.
C15_WellFormedNamesParsed ==
    (pc = "done" /\ input.op = "fortag" /\ NamesWellFormed) => LoopParsed

(***************************************************************************)
(* Splitting a test at its comparison operator                             *)
(***************************************************************************)

\* The operands of the tests: names, a number, quoted literals with and
\* without operator characters, an index step with a quoted key.
TestOperands ==
    {Chars("s"), Chars("n"), Chars("3"), Chars("'zz'"), Chars("\"a>b\""),
     Chars("'x==y'"), Chars("m[\"<\"]")}

TestOps == {CompareOps[a] : a \in 1..Len(CompareOps)}

NoOp == <<>>

TestContexts ==
    {Obj(<<Entry(Chars("s"), Str(sv)), Entry(Chars("n"), Num(nv)),
           Entry(Chars("m"), Obj(<<Entry(Chars("<"), Num(3))>>))>>) :
        sv \in {Chars("a>b"), Chars("zz"), Chars("x==y")}, nv \in {1, 3}}

\* left, or left op right
TestText(left, op, right) ==
    IF op = NoOp THEN left ELSE left \o <<" ">> \o op \o <<" ">> \o right

InitTest ==
    /\ pc = "start"
    /\ \E l \in TestOperands, op \in TestOps \cup {NoOp}, r \in TestOperands,
          c \in TestContexts :
          input = [op |-> "test", left |-> l, cmp |-> op,
                   right |-> IF op = NoOp THEN <<>> ELSE r,
                   expr |-> TestText(l, op, r), context |-> c]
    /\ result = NoResult
    /\ files = NoFiles
    /\ loader = NewLoader
    /\ pstate = IdleParser

\* renderNode on {% if expr %}Y{% endif %}.
RenderTest ==
    /\ pc = "start"
    /\ input.op = "test"
    /\ result' = renderNode(
          IfNode(<<Branch(Test(input.expr), <<TextNode(<<"Y">>)>>)>>, Pos(1, 1, 0)),
          input.context, Env(loader, <<>>), files, 1)
    /\ pc' = "done"
    /\ UNCHANGED <<input, files, loader, pstate>>

NextTest == RenderTest

SpecTest == InitTest /\ [][NextTest]_vars

\* The test split at its top-level operator: the comparison of the values of
\* the two operands, or the truthiness of the one operand.
TopLevelTest ==
    IF input.cmp = NoOp
    THEN IF Truthy(getValueFromExpr(input.left, input.context)) THEN "true" ELSE "false"
    ELSE safeCompare(getValueFromExpr(input.left, input.context),
                     getValueFromExpr(input.right, input.context), input.cmp)

HasOperatorChar(x) == \E i \in 1..Len(x) : x[i] \in {"=", "!", "<", ">"}

\* C16: a test is split into operands only at a comparison operator outside
\* every quoted literal and outside index brackets; operator characters
\* inside an operand belong to the operand, and a test without a top-level
\* operator is one value taken by its truthiness.
C16_SplitAtTopLevelOperator ==
    (pc = "done" /\ input.op = "test") =>
        /\ result.st = "ok"
        /\ result.out = IF TopLevelTest = "true" THEN <<"Y">> ELSE <<>>

\* C16 for the tests whose operands hold no operator character.
C16_PlainOperands ==
    (/\ pc = "done" /\ input.op = "test"
     /\ ~HasOperatorChar(input.left) /\ ~HasOperatorChar(input.right)) =>
        /\ result.st = "ok"
        /\ result.out = IF TopLevelTest = "true" THEN <<"Y">> ELSE <<>>

(***************************************************************************)
(* Lexing a template without delimiters                                    *)
(***************************************************************************)

\* The characters of the templates lexed.
LexAlphabet == {"a", "{", "}", "%", "#", "\n"}

\* The longest template lexed.
MaxLexLen == 4

InitLex ==
    /\ pc = "start"
    /\ \E src \in SeqsUpTo(LexAlphabet, MaxLexLen) : input = [op |-> "lex", src |-> src]
    /\ result = NoResult
    /\ files = NoFiles
    /\ loader = NewLoader
    /\ pstate = IdleParser

\* lex(template)
Lex ==
    /\ pc = "start"
    /\ input.op = "lex"
    /\ result' = [st |-> "ok", tokens |-> lex(input.src)]
    /\ pc' = "done"
    /\ UNCHANGED <<input, files, loader, pstate>>

NextLex == Lex

SpecLex == InitLex /\ [][NextLex]_vars

\* The template holds an opener followed, after it, by the closer of its kind.
HasCompletePair(s) ==
    \E d \in 1..3, i, j \in 1..Len(s) :
        /\ j >= i + 2 /\ j < Len(s)
        /\ <<s[i], s[i + 1]>> = Delims[d].open
        /\ <<s[j], s[j + 1]>> = Delims[d].close

OneTextToken(tokens, s) ==
    /\ Len(tokens) = 1
    /\ tokens[1].type = "text"
    /\ tokens[1].content = s

\* C17: for every template, the empty one included, without a complete
\* delimiter pair lex returns exactly one token, a text token whose content
\* is the template.
C17_OneTextToken ==
    (pc = "done" /\ input.op = "lex" /\ ~HasCompletePair(input.src)) =>
        /\ result.st = "ok"
        /\ OneTextToken(result.tokens, input.src)

\* C17 as amended: for every template that is not empty and holds no complete
\* delimiter pair lex returns exactly one token, a text token at line 1,
\* column 1 whose content is the template; for the empty template lex returns
\* no token.
C17_OneTextTokenUnlessEmpty ==
    (pc = "done" /\ input.op = "lex" /\ ~HasCompletePair(input.src)) =>
        /\ result.st = "ok"
        /\ IF Len(input.src) = 0 THEN result.tokens = <<>>
           ELSE /\ OneTextToken(result.tokens, input.src)
                /\ result.tokens[1].pos = Pos(1, 1, 0)

\* A template with an opener that is never closed, lexed to one text token.
C17_Witness ==
    /\ pc = "done" /\ input.op = "lex"
    /\ input.src = <<"a", "{", "{", "a">>
    /\ OneTextToken(result.tokens, input.src)

(***************************************************************************)
(* Loads that fail                                                         *)
(***************************************************************************)

\* C18: a load(path) that fails, in the read or in the parser, raises and
\* leaves the cache as it was, with no entry for the path; a load of a path
\* that has no entry reads the source again, and parses it again when the
\* read succeeds: a failure is never served from the cache.
C18_FailureNotCached ==
    [][input'.op = "load" =>
          /\ result'.st = "raised" =>
                /\ loader'.cache = loader.cache
                /\ input'.path \notin DOMAIN loader'.cache
          /\ input'.path \notin DOMAIN loader.cache =>
                /\ CountOf(loader'.reads, input'.path)
                      = CountOf(loader.reads, input'.path) + 1
                /\ CountOf(loader'.parses, input'.path)
                      = CountOf(loader.parses, input'.path)
                          + (IF FileAt(files, input'.path).exists THEN 1 ELSE 0)
                /\ result'.st = "raised" <=>
                      \/ ~FileAt(files, input'.path).exists
                      \/ parse(lex(FileAt(files, input'.path).src)).st = "error"]_vars

\* The second load of a path whose source does not parse: it failed again,
\* after a second read and a second parse, with another path in the cache.
C18_Witness ==
    /\ input.op = "load" /\ input.path = PathA
    /\ result.st = "raised"
    /\ CountOf(loader.reads, PathA) = 2
    /\ CountOf(loader.parses, PathA) = 2
    /\ DOMAIN loader.cache = {PathB}

(***************************************************************************)
(* Renders whose include and extends references form a cycle               *)
(***************************************************************************)

CyclePaths == {Chars("p1"), Chars("p2"), Chars("p3")}

\* What a file is: missing, text, or text with one reference to a template:
\* an include, an extends, or an include under a test of c.
Shape(kind, target) == [kind |-> kind, target |-> target]
Shapes ==
    {Shape("missing", <<>>), Shape("text", <<>>)}
    \cup {Shape(k, t) : k \in {"include", "extends", "guarded"}, t \in CyclePaths}

ShapeFile(sh) ==
    CASE sh.kind = "missing" -> NoFile
      [] sh.kind = "text" -> File(Chars("t"))
      [] sh.kind = "include" ->
           File(Chars("i{% include '") \o sh.target \o Chars("' %}"))
      [] sh.kind = "extends" ->
           File(Chars("{% extends \"") \o sh.target \o Chars("\" %}e"))
      [] OTHER ->
           File(Chars("{% if c %}{% include '") \o sh.target
                  \o Chars("' %}{% endif %}g"))

InitCycle ==
    /\ pc = "start"
    /\ \E shapes \in [CyclePaths -> Shapes], c \in BOOLEAN :
          /\ input = [op |-> "render", path |-> Chars("p1"), shapes |-> shapes,
                      context |-> Obj(<<Entry(Chars("c"), Bool(c))>>)]
          /\ files = [q \in CyclePaths |-> ShapeFile(shapes[q])]
    /\ result = NoResult
    /\ loader = NewLoader
    /\ pstate = IdleParser

NextCycle == RenderTemplate

SpecCycle == InitCycle /\ [][NextCycle]_vars

NoPath == <<>>

\* The template the render of q goes on to: the target of q's reference when
\* the render reaches it.
RefReached(q) ==
    LET sh == input.shapes[q] IN
    IF \/ sh.kind \in {"include", "extends"}
       \/ sh.kind = "guarded" /\ Truthy(ObjGet(input.context, Chars("c")))
    THEN sh.target ELSE NoPath

\* The template n references after q.
RECURSIVE Follow(_, _)
Follow(q, n) ==
    IF n = 0 \/ q = NoPath THEN q ELSE Follow(RefReached(q), n - 1)

\* The references reached from the rendered path form a cycle: as many of
\* them can be followed as there are templates.
CycleReached == Follow(input.path, Cardinality(CyclePaths)) # NoPath

====
